---- MODULE Spec2Model ----
(***************************************************************************)
(* CloudVault file manager (src/src/components/FileManager.tsx, the        *)
(* folder-aware revision at lines 361-801) as a state machine.             *)
(*                                                                         *)
(* Every asynchronous handler is a task; a task rests at its awaits.  An   *)
(* external event (a response, a timer, a click) is one step; the          *)
(* continuation of a settled await is the next step and, as a microtask,   *)
(* runs before any further external event (NoPending).                     *)
(*                                                                         *)
(* getCurrentUser and fetchAuthSession answer from the session the library *)
(* holds, within the step that calls them; the backoff timer, the control  *)
(* plane's response and a fetch's end are external events.  The backoff    *)
(* timers all wait the same second, so they expire in the order they were  *)
(* set, and those set in one step expire together.                         *)
(*                                                                         *)
(* Strings are sequences of atoms ("public", "/", "a.txt", ...), so that   *)
(* concatenation, startsWith and slice are computed, not assumed.          *)
(***************************************************************************)
EXTENDS Naturals, Sequences, FiniteSets

VARIABLES
    files,          \* useState<string[]>  displayed file entries
    folders,        \* useState<string[]>  displayed folder entries
    binFiles,       \* useState<string[]>  displayed bin entries
    selectedFiles,  \* useState<string[]>  selection
    loading,        \* useState(false)
    currentPath,    \* useState('')
    message,        \* Index.tsx: useState({ show, text })
    store,          \* control plane / object store: the user's keys
    tokenAvail,     \* identity provider: session.tokens?.idToken is present
    tasks,          \* the running asynchronous handlers
    timers,         \* the pending setTimeout(res, 1000) of apiCall, oldest first
    saved,          \* client-side saves triggered by link.click()
    folderName,     \* useState('')  the new-folder input
    input,          \* the arguments a pure function is applied to
    output,         \* what it returned
    nOps            \* operations and navigations started so far, an upload
                    \* counting once per file

vars == <<files, folders, binFiles, selectedFiles, loading, currentPath,
          message, store, tokenAvail, tasks, timers, saved, folderName, input,
          output, nOps>>

----------------------------------------------------------------------------
(* Bounds *)

MaxTasks == 3
MaxOps == 2
MaxBatch == 2
MaxLen == 2

(* Program constants *)

Retries == 2

UserId == "u1"
Slash == "/"
BinSeg == "bin"

----------------------------------------------------------------------------
(* Strings *)

StartsWith(s, p) == Len(s) >= Len(p) /\ SubSeq(s, 1, Len(p)) = p

Slice(s, n) == SubSeq(s, n + 1, Len(s))

Contains(seq, x) == \E i \in 1..Len(seq) : seq[i] = x

(* `public/${userId}/` *)
UserPrefix(userId) == <<"public", Slash, userId, Slash>>

(* `public/${userId}/bin/` *)
BinPrefix(userId) == <<"public", Slash, userId, Slash, BinSeg, Slash>>

(* A cleaner that strips nothing *)
cleanFileKeyKept(key, userId) == key

cleanFileKey(key, userId) ==
    IF StartsWith(key, UserPrefix(userId))
    THEN Slice(key, Len(UserPrefix(userId)))
    ELSE key

(* A bin cleaner that slices without looking *)
cleanBinFileKeySliced(key, userId) == Slice(key, Len(BinPrefix(userId)))

(* A bin cleaner that strips the user prefix only *)
cleanBinFileKeyShort(key, userId) == cleanFileKey(key, userId)

cleanBinFileKey(key, userId) ==
    IF StartsWith(key, BinPrefix(userId))
    THEN Slice(key, Len(BinPrefix(userId)))
    ELSE key

(* currentPath ? `${currentPath}${fileKey}` : fileKey *)
WithPath(path, fileKey) == IF path # <<>> THEN path \o fileKey ELSE fileKey

(* The entry as displayed *)
BareKey(fileKey) == fileKey

(* `bin/${fileKey}` *)
BinKey(fileKey) == <<BinSeg, Slash>> \o fileKey

----------------------------------------------------------------------------
(* Control plane and object store (external; from the specification's      *)
(* sections 4.3 and 6).  The store holds the user's keys relative to       *)
(* public/<userId>/; list answers with absolute keys.                      *)

(* The keys of the model's universe, in the order list returns them. *)
AllKeys ==
    << <<"a.txt">>, <<"b.txt">>,
       <<BinSeg, Slash, "a.txt">>, <<BinSeg, Slash, "b.txt">>,
       <<"docs", Slash>>, <<"docs", Slash, "b.txt">>,
       <<"docs", Slash, "sub", Slash, "c.txt">>,
       <<"docs", Slash, "docs", Slash>>, <<"docs", Slash, "new", Slash>>,
       <<"new", Slash>> >>

FileNames == {<<"a.txt">>, <<"b.txt">>}

InitStores ==
    { {<<"a.txt">>},
      {<<"a.txt">>, <<"b.txt">>},
      {<<"a.txt">>, <<BinSeg, Slash, "b.txt">>} }

RECURSIVE KeysIn(_, _)
KeysIn(st, keys) ==
    IF keys = <<>> THEN <<>>
    ELSE (IF Head(keys) \in st THEN <<Head(keys)>> ELSE <<>>)
         \o KeysIn(st, Tail(keys))

RECURSIVE Dedup(_)
Dedup(seq) ==
    IF seq = <<>> THEN <<>>
    ELSE LET rest == Dedup(SubSeq(seq, 1, Len(seq) - 1))
             x == seq[Len(seq)]
         IN IF Contains(rest, x) THEN rest ELSE Append(rest, x)

RECURSIVE FilterFiles(_, _)
FilterFiles(scope, keys) ==
    IF keys = <<>> THEN <<>>
    ELSE LET k == Head(keys)
             rest == Slice(k, Len(scope))
         IN (IF StartsWith(k, scope) /\ rest # <<>> /\ ~Contains(rest, Slash)
             THEN <<UserPrefix(UserId) \o k>> ELSE <<>>)
            \o FilterFiles(scope, Tail(keys))

RECURSIVE FilterFolders(_, _)
FilterFolders(scope, keys) ==
    IF keys = <<>> THEN <<>>
    ELSE LET k == Head(keys)
             rest == Slice(k, Len(scope))
         IN (IF StartsWith(k, scope) /\ rest # <<>> /\ Contains(Tail(rest), Slash)
             THEN <<UserPrefix(UserId) \o scope \o <<Head(rest), Slash>> >>
             ELSE <<>>)
            \o FilterFolders(scope, Tail(keys))

(* list: an entry with no further separator beyond the scope is a file,   *)
(* deeper entries are attributed to their immediate child folder.         *)
ListFiles(st, scope) == FilterFiles(scope, KeysIn(st, AllKeys))

ListFolders(st, scope) == Dedup(FilterFolders(scope, KeysIn(st, AllKeys)))

NoData == [files |-> <<>>, folders |-> <<>>, url |-> <<>>]

IsBinKey(key) == StartsWith(key, <<BinSeg, Slash>>) /\ Len(key) > 2

(* Whether the control plane can carry the operation out. *)
ServerAccepts(action, key, st) ==
    CASE action = "move_to_bin" -> key \in st /\ ~IsBinKey(key)
      [] action = "restore_from_bin" -> key \in st /\ IsBinKey(key)
      [] OTHER -> TRUE

ServerStore(action, key, st) ==
    CASE action = "move_to_bin" -> (st \ {key}) \cup {<<BinSeg, Slash>> \o key}
      [] action = "restore_from_bin" -> (st \ {key}) \cup {Slice(key, 2)}
      [] action = "create_folder" -> st \cup {Append(key, Slash)}
      [] OTHER -> st

ServerData(action, key, st) ==
    CASE action = "list" ->
            [files |-> ListFiles(st, key), folders |-> ListFolders(st, key),
             url |-> <<>>]
      [] action \in {"get_file", "generate_upload_url"} ->
            [NoData EXCEPT !.url = key]
      [] OTHER -> NoData

----------------------------------------------------------------------------
(* apiCall(action, fileKey, method, body, retries = 2): one record per     *)
(* invocation.  acq and waits count the token acquisitions and the backoff *)
(* waits it has made; bearer says whether the Authorization header of the  *)
(* request carries a token.                                                *)

NoCall ==
    [phase |-> "none", retries |-> 0, acq |-> 0, waits |-> 0, bearer |-> FALSE,
     action |-> "none", key |-> <<>>, err |-> "none", data |-> NoData]

StartCall(action, key) ==
    [NoCall EXCEPT !.phase = "acquire", !.retries = Retries,
                   !.action = action, !.key = key]

(* A guard that gives up with one retry left *)
CanRetryTwice(retries) == retries > 1

(* if (retries > 0) *)
CanRetry(retries) == retries > 0

(* A gateway that sends the request bare once the retries are used up *)
AcquiredBare(c, token) ==
    IF token \/ ~CanRetry(c.retries)
    THEN [c EXCEPT !.phase = "inflight", !.acq = @ + 1, !.bearer = token]
    ELSE [c EXCEPT !.phase = "backoff", !.acq = @ + 1]

(* const session = await fetchAuthSession(); const token = ...; if (!token) *)
Acquired(c, token) ==
    IF token
    THEN [c EXCEPT !.phase = "inflight", !.acq = @ + 1, !.bearer = TRUE]
    ELSE IF CanRetry(c.retries)
         THEN [c EXCEPT !.phase = "backoff", !.acq = @ + 1]
         ELSE [c EXCEPT !.phase = "failed", !.acq = @ + 1,
                        !.err = "AuthNotReady"]

(* await new Promise((res) => setTimeout(res, 1000));                      *)
(* return apiCall(action, fileKey, method, body, retries - 1)              *)
BackedOff(c) ==
    [c EXCEPT !.phase = "acquire", !.retries = @ - 1, !.waits = @ + 1]

(* apiCall up to its first await of the network or of the timer *)
Begin(action, key, token) == Acquired(StartCall(action, key), token)

(* The timer fires and the recursive apiCall acquires again *)
Retried(c, token) == Acquired(BackedOff(c), token)

(* The response: data on success; status >= 400 and a transport failure    *)
(* both end in the catch, which rethrows.                                  *)
Responded(c, outcome, st) ==
    CASE outcome = "ok" ->
            [c EXCEPT !.phase = "ok", !.data = ServerData(c.action, c.key, st)]
      [] outcome = "rejected" ->
            [c EXCEPT !.phase = "failed", !.err = "RequestRejected"]
      [] OTHER ->
            [c EXCEPT !.phase = "failed", !.err = "NetworkError"]

Outcomes == {"ok", "rejected", "network"}

Settled(c) == c.phase \in {"ok", "failed"}

----------------------------------------------------------------------------
(* Tasks *)

Tasks == 1..MaxTasks

Idle ==
    [op |-> "idle", pc |-> "idle", call |-> NoCall, arg |-> <<>>,
     path |-> <<>>, sel |-> <<>>, members |-> <<>>, cause |-> "none",
     err |-> "none"]

(* One member of a Promise.all over files: its apiCall, then its fetch.    *)
(* xfer records how the fetch ended: "ok" (a 2xx response), "httperr" (the *)
(* fetch resolved with an error status), "reject" (the fetch rejected).    *)
Member(name, action, key, token) ==
    [name |-> name, stage |-> "call", call |-> Begin(action, key, token),
     xfer |-> "none"]

FreeSlots(ts) == {t \in Tasks : ts[t].op = "idle"}

FirstFree(ts) == CHOOSE t \in FreeSlots(ts) : \A u \in FreeSlots(ts) : t <= u

Spawn(ts, rec) == [ts EXCEPT ![FirstFree(ts)] = rec]

(* A settled await whose continuation has not run yet, or a mount effect   *)
(* that has not run yet.                                                   *)
Pending(tk) ==
    \/ tk.pc \in {"user", "userErr", "allOk", "allErr"}
    \/ tk.pc = "call" /\ Settled(tk.call)

NoPending == \A t \in Tasks : ~Pending(tasks[t])

(* A call site: <<t, 0>> is the apiCall task t awaits itself, <<t, i>> the *)
(* apiCall of its i-th member.                                             *)
Sites == Tasks \X (0..MaxBatch)

InBackoff(ts, site) ==
    LET tk == ts[site[1]] IN
    IF site[2] = 0
    THEN tk.pc = "call" /\ tk.call.phase = "backoff"
    ELSE /\ site[2] <= Len(tk.members)
         /\ tk.members[site[2]].stage = "call"
         /\ tk.members[site[2]].call.phase = "backoff"

Armed(ts) == {site \in Sites : InBackoff(ts, site)}

RECURSIVE Queued(_)
Queued(q) == IF q = <<>> THEN {} ELSE Head(q) \cup Queued(Tail(q))

RECURSIVE Live(_, _)
Live(q, armed) ==
    IF q = <<>> THEN <<>>
    ELSE (IF Head(q) \cap armed = {} THEN <<>> ELSE <<Head(q) \cap armed>>)
         \o Live(Tail(q), armed)

(* The timer queue once the tasks are ts: the timers of calls that are     *)
(* gone are dropped, the timers set in this step join the end together.    *)
Requeue(q, ts) ==
    LET kept == Live(q, Armed(ts))
        new == Armed(ts) \ Queued(kept)
    IN IF new = {} THEN kept ELSE Append(kept, new)

(* Every action that changes the tasks goes through here. *)
SetTasks(ts) == tasks' = ts /\ timers' = Requeue(timers, ts)

(* onMessage: Index.tsx handleMessage *)
Text(tag, name, err, count) ==
    [tag |-> tag, name |-> name, err |-> err, count |-> count]

NoText == Text("", <<>>, "none", 0)

(* A channel that keeps the message it is showing *)
handleMessageFirst(text) ==
    IF message.show THEN message ELSE [show |-> TRUE, text |-> text]

(* setMessage({ show: true, text }) *)
handleMessage(text) == [show |-> TRUE, text |-> text]

----------------------------------------------------------------------------
(* The state after construction: empty lists, and the mount effect         *)
(* (useEffect, initialize) about to run.                                   *)

(* No function is being applied *)
Nothing == [kind |-> "none"]

InitTask == [Idle EXCEPT !.op = "init", !.pc = "user"]

(* A slot kept for the second refresh of an operation that ends in         *)
(* fetchFiles(); fetchBinFiles().                                          *)
Reserved == [Idle EXCEPT !.op = "reserved"]

Init ==
    /\ files = <<>>
    /\ folders = <<>>
    /\ binFiles = <<>>
    /\ selectedFiles = <<>>
    /\ loading = FALSE
    /\ currentPath = <<>>
    /\ message = [show |-> FALSE, text |-> NoText]
    /\ store \in InitStores
    /\ tokenAvail \in BOOLEAN
    /\ tasks = [t \in Tasks |->
                  IF t = 1 THEN InitTask ELSE IF t = 2 THEN Reserved ELSE Idle]
    /\ timers = <<>>
    /\ saved = <<>>
    /\ folderName = <<>>
    /\ input = Nothing
    /\ output = Nothing
    /\ nOps = 0

client == <<files, folders, binFiles, selectedFiles, loading, currentPath, message>>

----------------------------------------------------------------------------
(* Identity provider: the session's token becomes available. *)

TokenArrives ==
    /\ NoPending
    /\ ~tokenAvail
    /\ tokenAvail' = TRUE
    /\ UNCHANGED <<client, store, tasks, timers, saved, nOps>>
    /\ UNCHANGED <<folderName, input, output>>

----------------------------------------------------------------------------
(* Promise.all over the members of a batch *)

MemberSettled(m) == m.stage \in {"ok", "rejected"}

AllSettled(tk) == \A i \in 1..Len(tk.members) : MemberSettled(tk.members[i])

AnyRejected(tk) == \E i \in 1..Len(tk.members) : tk.members[i].stage = "rejected"

AllFulfilled(tk) == \A i \in 1..Len(tk.members) : tk.members[i].stage = "ok"

(* The task after one of its members has moved: Promise.all rejects with   *)
(* the first rejection and fulfils when every member has fulfilled; the    *)
(* members of a batch that has already rejected run on to their end.       *)
Joined(tk, err) ==
    CASE tk.pc = "all" /\ AnyRejected(tk) -> [tk EXCEPT !.pc = "allErr", !.err = err]
      [] tk.pc = "all" /\ AllFulfilled(tk) -> [tk EXCEPT !.pc = "allOk"]
      [] tk.pc = "orphans" /\ AllSettled(tk) -> Idle
      [] OTHER -> tk

(* A member whose apiCall has moved to c: a failed call rejects the        *)
(* member, a successful one starts its fetch.                              *)
MemberCalled(m, c) ==
    CASE c.phase = "failed" -> [m EXCEPT !.call = c, !.stage = "rejected"]
      [] c.phase = "ok" -> [m EXCEPT !.call = c, !.stage = "xfer"]
      [] OTHER -> [m EXCEPT !.call = c]

Running(tk) == tk.pc \in {"all", "orphans"}

----------------------------------------------------------------------------
(* apiCall: the timer and the response *)

(* The task whose call at the site has waited its second: apiCall recurses *)
(* and acquires again.                                                     *)
Fired(tk, i, token) ==
    IF i = 0
    THEN [tk EXCEPT !.call = Retried(tk.call, token)]
    ELSE LET c == Retried(tk.members[i].call, token)
         IN Joined([tk EXCEPT !.members[i] = MemberCalled(tk.members[i], c)], c.err)

RECURSIVE FireAll(_, _, _)
FireAll(ts, group, token) ==
    IF group = {} THEN ts
    ELSE LET site == CHOOSE x \in group :
                        \A y \in group : x[1] < y[1] \/ (x[1] = y[1] /\ x[2] <= y[2])
         IN FireAll([ts EXCEPT ![site[1]] = Fired(ts[site[1]], site[2], token)],
                    group \ {site}, token)

(* The oldest timers expire *)
apiCallRetry ==
    /\ NoPending
    /\ timers # <<>>
    /\ LET ts == FireAll(tasks, Head(timers), tokenAvail)
       IN /\ tasks' = ts
          /\ timers' = Requeue(Tail(timers), ts)
    /\ UNCHANGED <<client, store, tokenAvail, saved, nOps>>
    /\ UNCHANGED <<folderName, input, output>>

(* The control plane answers the handler's own call, or the transport fails *)
apiCallResponse(t) ==
    /\ NoPending
    /\ tasks[t].pc = "call"
    /\ tasks[t].call.phase = "inflight"
    /\ \E o \in Outcomes :
         LET c == tasks[t].call IN
         /\ o = "ok" => ServerAccepts(c.action, c.key, store)
         /\ store' = IF o = "ok" THEN ServerStore(c.action, c.key, store) ELSE store
         /\ SetTasks([tasks EXCEPT ![t].call = Responded(c, o, store')])
    /\ UNCHANGED <<client, tokenAvail, saved, nOps>>
    /\ UNCHANGED <<folderName, input, output>>

(* The control plane answers a member's call *)
memberResponse(t, i) ==
    /\ NoPending
    /\ Running(tasks[t])
    /\ tasks[t].members[i].stage = "call"
    /\ tasks[t].members[i].call.phase = "inflight"
    /\ \E o \in Outcomes :
         LET c == Responded(tasks[t].members[i].call, o, store)
             tk == [tasks[t] EXCEPT !.members[i] = MemberCalled(@, c)]
         IN SetTasks([tasks EXCEPT ![t] = Joined(tk, c.err)])
    /\ UNCHANGED <<client, store, tokenAvail, saved, nOps>>
    /\ UNCHANGED <<folderName, input, output>>

(* How a fetch can end: a 2xx response, a response with an error status    *)
(* (the promise still fulfils), or a rejection (no response).              *)
FetchEnds == {"ok", "httperr", "reject"}

(* await fetch(...): the handlers look at nothing but whether the promise  *)
(* fulfilled.                                                              *)
Fetched(m, x) ==
    [m EXCEPT !.xfer = x, !.stage = IF x = "reject" THEN "rejected" ELSE "ok"]

(* fetch(uploadURL, { method: 'PUT', ... }) / fetch(url) ends *)
memberFetch(t, i) ==
    /\ NoPending
    /\ Running(tasks[t])
    /\ tasks[t].members[i].stage = "xfer"
    /\ \E x \in FetchEnds :
         LET m == tasks[t].members[i]
             key == m.call.data.url
             tk == [tasks[t] EXCEPT !.members[i] = Fetched(m, x)]
         IN /\ (x = "ok" /\ tasks[t].op = "multi") => key \in store
            /\ store' = IF x = "ok" /\ tasks[t].op = "upload"
                        THEN store \cup {key} ELSE store
            /\ SetTasks([tasks EXCEPT ![t] = Joined(tk, "FetchFailed")])
    /\ UNCHANGED <<client, tokenAvail, saved, nOps>>
    /\ UNCHANGED <<folderName, input, output>>

----------------------------------------------------------------------------
(* fetchFiles / fetchBinFiles *)

(* fetchFiles() / fetchBinFiles() up to the await of apiCall('list', ...): *)
(* setLoading(true), getCurrentUser (ok says whether it resolves), and the *)
(* start of the call.  cause and arg remember the handler that asked for   *)
(* the refresh.                                                            *)
FetchTask(op, path, cause, arg, ok, token) ==
    IF ok
    THEN [Idle EXCEPT !.op = op, !.pc = "call", !.path = path, !.cause = cause,
                      !.arg = arg,
                      !.call = Begin("list",
                                 IF op = "fetchFiles" THEN path ELSE <<BinSeg, Slash>>,
                                 token)]
    ELSE [Idle EXCEPT !.op = op, !.pc = "userErr", !.path = path,
                      !.cause = cause, !.arg = arg, !.err = "NotSignedIn"]

Failed(tk) == tk.pc = "userErr" \/ (tk.pc = "call" /\ tk.call.phase = "failed")

ErrorOf(tk) == IF tk.pc = "call" THEN tk.call.err ELSE tk.err

(* A listing shown as the control plane sent it *)
CleanFilesRaw(keys) == keys

(* response.files.map((key) => cleanFileKey(key, user.userId)) *)
CleanFiles(keys) == [i \in 1..Len(keys) |-> cleanFileKey(keys[i], UserId)]

(* response.files.map((key) => cleanBinFileKey(key, user.userId)) *)
CleanBinFiles(keys) == [i \in 1..Len(keys) |-> cleanBinFileKey(keys[i], UserId)]

(* A catch that clears the lists *)
FetchFailedCleared(fs, fo, bs) == << <<>>, <<>>, <<>> >>

(* What the catch of fetchFiles / fetchBinFiles does to the lists. *)
FetchFailedLists(fs, fo, bs) == <<fs, fo, bs>>

(* A handler that releases the flag at the end of its try block only *)
ReleasedInTry(failed, flag) == IF failed THEN flag ELSE FALSE

(* finally { setLoading(false); } *)
Released(failed, flag) == FALSE

(* The rest of fetchFiles after its awaits: setFiles and setFolders, or    *)
(* the catch; finally setLoading(false).                                   *)
fetchFiles(t) ==
    /\ tasks[t].op = "fetchFiles"
    /\ Pending(tasks[t])
    /\ IF Failed(tasks[t])
       THEN /\ message' = handleMessage(
                   Text("Failed to fetch files", <<>>, ErrorOf(tasks[t]), 0))
            /\ LET kept == FetchFailedLists(files, folders, binFiles)
               IN files' = kept[1] /\ folders' = kept[2] /\ binFiles' = kept[3]
       ELSE /\ files' = CleanFiles(tasks[t].call.data.files)
            /\ folders' = CleanFiles(tasks[t].call.data.folders)
            /\ UNCHANGED <<binFiles, message>>
    /\ loading' = Released(Failed(tasks[t]), loading)
    /\ SetTasks([tasks EXCEPT ![t] = Idle])
    /\ UNCHANGED <<selectedFiles, currentPath, store, tokenAvail, saved, nOps>>
    /\ UNCHANGED <<folderName, input, output>>

fetchBinFiles(t) ==
    /\ tasks[t].op = "fetchBin"
    /\ Pending(tasks[t])
    /\ IF Failed(tasks[t])
       THEN /\ message' = handleMessage(
                   Text("Failed to fetch bin", <<>>, ErrorOf(tasks[t]), 0))
            /\ LET kept == FetchFailedLists(files, folders, binFiles)
               IN files' = kept[1] /\ folders' = kept[2] /\ binFiles' = kept[3]
       ELSE /\ binFiles' = CleanBinFiles(tasks[t].call.data.files)
            /\ UNCHANGED <<files, folders, message>>
    /\ loading' = Released(Failed(tasks[t]), loading)
    /\ SetTasks([tasks EXCEPT ![t] = Idle])
    /\ UNCHANGED <<selectedFiles, currentPath, store, tokenAvail, saved, nOps>>
    /\ UNCHANGED <<folderName, input, output>>

(* One reserved slot, turned into rec. *)
FirstReserved(ts) ==
    CHOOSE t \in Tasks : ts[t].op = "reserved"
                         /\ \A u \in Tasks : ts[u].op = "reserved" => t <= u

UseReserved(ts, rec) == [ts EXCEPT ![FirstReserved(ts)] = rec]

(* fetchFiles() alone *)
RefreshFiles(ts, t, cause, ok1, ok2, token) ==
    UseReserved(
        [ts EXCEPT ![t] = FetchTask("fetchFiles", ts[t].path, cause,
                                    ts[t].arg, ok1, token)],
        Idle)

(* Refreshes in a chain: the bin is fetched only after fetchFiles has got  *)
(* past its start.                                                         *)
RefreshChained(ts, t, cause, ok1, ok2, token) ==
    UseReserved(
        [ts EXCEPT ![t] = FetchTask("fetchFiles", ts[t].path, cause,
                                    ts[t].arg, ok1, token)],
        IF ok1
        THEN FetchTask("fetchBin", ts[t].path, cause, ts[t].arg, ok2, token)
        ELSE Idle)

(* fetchFiles(); fetchBinFiles(); on behalf of task t *)
RefreshBoth(ts, t, cause, ok1, ok2, token) ==
    UseReserved(
        [ts EXCEPT ![t] = FetchTask("fetchFiles", ts[t].path, cause,
                                    ts[t].arg, ok1, token)],
        FetchTask("fetchBin", ts[t].path, cause, ts[t].arg, ok2, token))

(* onAuthChange() after a failed initialize: Index.tsx takes the file      *)
(* manager off the screen.                                                 *)
SignedOut == [Idle EXCEPT !.op = "signedOut"]

Mounted == \A t \in Tasks : tasks[t].op # "signedOut"

(* An effect that lists the root whatever the path *)
EffectAtRoot(ts, t, path) == [ts EXCEPT ![t].path = <<>>]

(* The effect runs in the render of the new path: its fetchFiles reads     *)
(* that render's currentPath.                                              *)
EffectAt(ts, t, path) == [ts EXCEPT ![t].path = path]

(* useEffect: await getCurrentUser(); then                                 *)
(* Promise.all([fetchFiles(), fetchBinFiles()]); the catch reports and     *)
(* calls onAuthChange.                                                     *)
initialize(t) ==
    /\ tasks[t].op = "init"
    /\ tasks[t].pc = "user"
    /\ \E ok, ok1, ok2 \in BOOLEAN :
         IF ok
         THEN /\ SetTasks(RefreshBoth(EffectAt(tasks, t, currentPath),
                                      t, "init", ok1, ok2, tokenAvail))
              /\ loading' = TRUE
              /\ UNCHANGED message
         ELSE /\ SetTasks(UseReserved([tasks EXCEPT ![t] = SignedOut], Idle))
              /\ message' = handleMessage(Text("Please sign in", <<>>, "none", 0))
              /\ UNCHANGED loading
    /\ UNCHANGED <<files, folders, binFiles, selectedFiles, currentPath, store,
                   tokenAvail, saved, nOps>>
    /\ UNCHANGED <<folderName, input, output>>

----------------------------------------------------------------------------
(* The user's operations.  The lists and the dropzone are rendered only    *)
(* while loading is false (disabled={loading}, loading ? ... : ...).       *)

CanStart(n) ==
    /\ NoPending
    /\ Mounted
    /\ ~loading
    /\ nOps < MaxOps
    /\ Cardinality(FreeSlots(tasks)) >= n

Batches == UNION {[1..n -> FileNames] : n \in 1..MaxBatch}

(* acceptedFiles.map(async (file) => { ... apiCall('generate_upload_url') *)
UploadMembers(batch, path, token) ==
    [i \in 1..Len(batch) |->
        Member(batch[i], "generate_upload_url", WithPath(path, batch[i]), token)]

(* handleUpload up to the await of Promise.all *)
handleUploadStart(batch) ==
    /\ CanStart(1)
    /\ nOps + Len(batch) <= MaxOps
    /\ loading' = TRUE
    /\ \E ok \in BOOLEAN :
         SetTasks(Spawn(tasks,
            IF ok
            THEN [Idle EXCEPT !.op = "upload", !.pc = "all", !.path = currentPath,
                              !.members = UploadMembers(batch, currentPath, tokenAvail)]
            ELSE [Idle EXCEPT !.op = "upload", !.pc = "userErr",
                              !.path = currentPath, !.err = "NotSignedIn"]))
    /\ nOps' = nOps + Len(batch)
    /\ UNCHANGED <<files, folders, binFiles, selectedFiles, currentPath, message,
                   store, tokenAvail, saved>>
    /\ UNCHANGED <<folderName, input, output>>

(* The members of a rejected batch that are still on their way. *)
Leftover(tk) == IF AllSettled(tk) THEN Idle ELSE [tk EXCEPT !.pc = "orphans"]

(* Whether handleUpload goes on to onMessage(`Uploaded ...`); fetchFiles() *)
UploadSucceeded(tk) == tk.pc = "allOk"

(* handleUpload after Promise.all: the message and fetchFiles(), or the    *)
(* catch; finally setLoading(false), which is the last word on loading in  *)
(* this step.                                                              *)
handleUploadDone(t) ==
    /\ tasks[t].op = "upload"
    /\ Pending(tasks[t])
    /\ IF UploadSucceeded(tasks[t])
       THEN /\ message' = handleMessage(
                   Text("Uploaded", <<>>, "none", Len(tasks[t].members)))
            /\ \E ok \in BOOLEAN :
                 SetTasks([tasks EXCEPT ![t] =
                    FetchTask("fetchFiles", tasks[t].path, "upload", <<>>,
                              ok, tokenAvail)])
       ELSE /\ message' = handleMessage(
                   Text("Upload failed", <<>>, tasks[t].err, 0))
            /\ SetTasks([tasks EXCEPT ![t] =
                    IF tasks[t].pc = "userErr" THEN Idle ELSE Leftover(tasks[t])])
    /\ loading' = FALSE
    /\ UNCHANGED <<files, folders, binFiles, selectedFiles, currentPath, store,
                   tokenAvail, saved, nOps>>
    /\ UNCHANGED <<folderName, input, output>>

(* handleDownload up to the await of apiCall('get_file', downloadKey) *)
handleDownloadStart(fileKey) ==
    /\ CanStart(1)
    /\ Contains(files, fileKey)
    /\ SetTasks(Spawn(tasks,
            [Idle EXCEPT !.op = "download", !.pc = "call", !.arg = fileKey,
                         !.path = currentPath,
                         !.call = Begin("get_file", WithPath(currentPath, fileKey),
                                        tokenAvail)]))
    /\ nOps' = nOps + 1
    /\ UNCHANGED <<client, store, tokenAvail, saved>>
    /\ UNCHANGED <<folderName, input, output>>

(* link.href = ...; link.download = ...; link.click() *)
Save(name, content) == [name |-> name, content |-> content]

handleDownloadDone(t) ==
    /\ tasks[t].op = "download"
    /\ Pending(tasks[t])
    /\ IF Failed(tasks[t])
       THEN /\ message' = handleMessage(
                   Text("Download failed", <<>>, ErrorOf(tasks[t]), 0))
            /\ UNCHANGED saved
       ELSE /\ saved' = Append(saved,
                   Save(tasks[t].arg, <<tasks[t].call.data.url>>))
            /\ UNCHANGED message
    /\ SetTasks([tasks EXCEPT ![t] = Idle])
    /\ UNCHANGED <<files, folders, binFiles, selectedFiles, loading, currentPath,
                   store, tokenAvail, nOps>>
    /\ UNCHANGED <<folderName, input, output>>

(* selectedFiles.map(async (fileKey) => { ... apiCall('get_file') *)
DownloadMembers(sel, path, token) ==
    [i \in 1..Len(sel) |->
        Member(sel[i], "get_file", WithPath(path, sel[i]), token)]

(* handleMultipleDownload up to the await of Promise.all; the button is    *)
(* disabled while nothing is selected.                                     *)
handleMultipleDownloadStart ==
    /\ CanStart(1)
    /\ selectedFiles # <<>>
    /\ loading' = TRUE
    /\ SetTasks(Spawn(tasks,
            [Idle EXCEPT !.op = "multi", !.pc = "all", !.path = currentPath,
                         !.sel = selectedFiles,
                         !.members = DownloadMembers(selectedFiles, currentPath,
                                                     tokenAvail)]))
    /\ nOps' = nOps + 1
    /\ UNCHANGED <<files, folders, binFiles, selectedFiles, currentPath, message,
                   store, tokenAvail, saved>>
    /\ UNCHANGED <<folderName, input, output>>

(* An archive that keeps the first entry only *)
ZipEntriesFirst(members) == <<<<members[1].name, members[1].xfer>>>>

(* zip.file(fileKey, await response.blob()): the body of whatever response *)
(* the fetch fulfilled with.                                               *)
ZipEntries(members) ==
    [i \in 1..Len(members) |-> <<members[i].name, members[i].xfer>>]

ZipName == <<"download.zip">>

(* Whether handleMultipleDownload goes on to save the archive *)
DownloadSucceeded(tk) == tk.pc = "allOk"

(* The selection after handleMultipleDownload's try block *)
SelectionAfter(ok, sel) == IF ok THEN <<>> ELSE sel

handleMultipleDownloadDone(t) ==
    /\ tasks[t].op = "multi"
    /\ Pending(tasks[t])
    /\ IF DownloadSucceeded(tasks[t])
       THEN /\ saved' = Append(saved, Save(ZipName, ZipEntries(tasks[t].members)))
            /\ message' = handleMessage(
                   Text("Downloaded", <<>>, "none", Len(tasks[t].sel)))
       ELSE /\ message' = handleMessage(
                   Text("Download failed", <<>>, tasks[t].err, 0))
            /\ UNCHANGED saved
    /\ selectedFiles' = SelectionAfter(DownloadSucceeded(tasks[t]), selectedFiles)
    /\ loading' = FALSE
    /\ SetTasks([tasks EXCEPT ![t] = Idle])
    /\ UNCHANGED <<files, folders, binFiles, currentPath, store, tokenAvail, nOps>>
    /\ UNCHANGED <<folderName, input, output>>

(* moveToBin up to the await of apiCall('move_to_bin', moveKey, 'POST') *)
moveToBinStart(fileKey) ==
    /\ CanStart(2)
    /\ Contains(files, fileKey)
    /\ SetTasks(Spawn(Spawn(tasks,
            [Idle EXCEPT !.op = "move", !.pc = "call", !.arg = fileKey,
                         !.path = currentPath,
                         !.call = Begin("move_to_bin",
                                        WithPath(currentPath, fileKey), tokenAvail)]),
            Reserved))
    /\ nOps' = nOps + 1
    /\ UNCHANGED <<client, store, tokenAvail, saved>>
    /\ UNCHANGED <<folderName, input, output>>

(* restoreFromBin up to the await of apiCall('restore_from_bin', ...) *)
restoreFromBinStart(fileKey) ==
    /\ CanStart(2)
    /\ Contains(binFiles, fileKey)
    /\ SetTasks(Spawn(Spawn(tasks,
            [Idle EXCEPT !.op = "restore", !.pc = "call", !.arg = fileKey,
                         !.path = currentPath,
                         !.call = Begin("restore_from_bin", BinKey(fileKey),
                                        tokenAvail)]),
            Reserved))
    /\ nOps' = nOps + 1
    /\ UNCHANGED <<client, store, tokenAvail, saved>>
    /\ UNCHANGED <<folderName, input, output>>

(* The rest of moveToBin / restoreFromBin: the message and the two         *)
(* refreshes, or the catch.                                                *)
Mutated(t, op, done, failed) ==
    /\ tasks[t].op = op
    /\ Pending(tasks[t])
    /\ IF Failed(tasks[t])
       THEN /\ message' = handleMessage(
                   Text(failed, <<>>, ErrorOf(tasks[t]), 0))
            /\ SetTasks(UseReserved([tasks EXCEPT ![t] = Idle], Idle))
            /\ UNCHANGED loading
       ELSE /\ message' = handleMessage(Text(done, tasks[t].arg, "none", 0))
            /\ \E ok1, ok2 \in BOOLEAN :
                 SetTasks(RefreshBoth(tasks, t, op, ok1, ok2, tokenAvail))
            /\ loading' = TRUE
    /\ UNCHANGED <<files, folders, binFiles, selectedFiles, currentPath, store,
                   tokenAvail, saved, nOps>>
    /\ UNCHANGED <<folderName, input, output>>

moveToBinDone(t) == Mutated(t, "move", "Moved to bin", "Move failed")

restoreFromBinDone(t) == Mutated(t, "restore", "Restored from bin", "Restore failed")

Without(seq, x) == SelectSeq(seq, LAMBDA y : y # x)

(* A toggle that only ever adds *)
ToggledOn(prev, fileKey) == Append(prev, fileKey)

(* prev.includes(fileKey) ? prev.filter((key) => key !== fileKey)          *)
(*                        : [...prev, fileKey]                             *)
Toggled(prev, fileKey) ==
    IF Contains(prev, fileKey) THEN Without(prev, fileKey) ELSE Append(prev, fileKey)

toggleFileSelection(fileKey) ==
    /\ NoPending
    /\ Mounted
    /\ ~loading
    /\ Contains(files, fileKey)
    /\ selectedFiles' = Toggled(selectedFiles, fileKey)
    /\ UNCHANGED <<files, folders, binFiles, loading, currentPath, message, store,
                   tokenAvail, tasks, timers, saved, nOps>>
    /\ UNCHANGED <<folderName, input, output>>

(* Index.tsx closeMessage *)
closeMessage ==
    /\ NoPending
    /\ message.show
    /\ message' = [show |-> FALSE, text |-> NoText]
    /\ UNCHANGED <<files, folders, binFiles, selectedFiles, loading, currentPath,
                   store, tokenAvail, tasks, timers, saved, nOps>>
    /\ UNCHANGED <<folderName, input, output>>

----------------------------------------------------------------------------
(* Navigation.  The mount effect depends on currentPath, so every change   *)
(* of the path runs initialize again.                                      *)

(* prev.split('/').filter(Boolean); every name is one atom *)
Segments(path) == SelectSeq(path, LAMBDA x : x # Slash)

RECURSIVE JoinSlash(_)
(* `${parts.join('/')}/` *)
JoinSlash(parts) ==
    IF parts = <<>> THEN <<>> ELSE <<Head(parts), Slash>> \o JoinSlash(Tail(parts))

(* A navigateUp that leaves the trailing separator out *)
ParentOfBare(path) ==
    LET parts == Segments(path)
        up == JoinSlash(SubSeq(parts, 1, Len(parts) - 1))
    IN IF up = <<>> THEN <<>> ELSE SubSeq(up, 1, Len(up) - 1)

(* parts.pop(); return parts.length > 0 ? `${parts.join('/')}/` : '' *)
ParentOf(path) ==
    LET parts == Segments(path)
    IN JoinSlash(SubSeq(parts, 1, Len(parts) - 1))

(* (prev) => (prev ? `${prev}${folder}` : folder) *)
ChildOf(prev, folder) == IF prev # <<>> THEN prev \o folder ELSE folder

(* The effect of [currentPath] is queued together with a slot for its      *)
(* second listing.                                                         *)
Remount(ts) == Spawn(Spawn(ts, InitTask), Reserved)

(* The folders the model's stores can show *)
FolderNames == {<<"docs", Slash>>, <<"docs", Slash, "sub", Slash>>}

(* onClick={() => navigateToFolder(folder)}: the folder list is rendered   *)
(* while loading is false.                                                 *)
navigateToFolder(folder) ==
    /\ NoPending
    /\ Mounted
    /\ ~loading
    /\ Contains(folders, folder)
    /\ nOps < MaxOps
    /\ Cardinality(FreeSlots(tasks)) >= 2
    /\ currentPath' = ChildOf(currentPath, folder)
    /\ SetTasks(Remount(tasks))
    /\ nOps' = nOps + 1
    /\ UNCHANGED <<files, folders, binFiles, selectedFiles, loading, message,
                   store, tokenAvail, saved, folderName, input, output>>

(* {currentPath && <button onClick={navigateUp}>Go Up</button>} *)
navigateUp ==
    /\ NoPending
    /\ Mounted
    /\ currentPath # <<>>
    /\ nOps < MaxOps
    /\ Cardinality(FreeSlots(tasks)) >= 2
    /\ currentPath' = ParentOf(currentPath)
    /\ SetTasks(Remount(tasks))
    /\ nOps' = nOps + 1
    /\ UNCHANGED <<files, folders, binFiles, selectedFiles, loading, message,
                   store, tokenAvail, saved, folderName, input, output>>

----------------------------------------------------------------------------
(* createFolder.  A name is a sequence of characters; " " is whitespace.   *)

Space == " "

RECURSIVE TrimStart(_)
TrimStart(name) ==
    IF name # <<>> /\ Head(name) = Space THEN TrimStart(Tail(name)) ELSE name

RECURSIVE TrimEnd(_)
TrimEnd(name) ==
    IF name # <<>> /\ name[Len(name)] = Space
    THEN TrimEnd(SubSeq(name, 1, Len(name) - 1))
    ELSE name

(* folderName.trim() *)
Trim(name) == TrimEnd(TrimStart(name))

(* A check that lets whitespace through *)
IsEmptyName(name) == name = <<>>

(* !folderName.trim() *)
IsBlankName(name) == Trim(name) = <<>>

(* currentPath ? `${currentPath}${folderName}` : folderName *)
FolderPath(path, name) == IF path # <<>> THEN path \o name ELSE name

(* What can be typed into the folder-name input *)
FolderInputs == {<<>>, <<Space>>, <<Space, Space>>, <<"docs">>, <<"new">>}

(* onChange={(e) => setFolderName(e.target.value)}, disabled={loading} *)
setFolderName(name) ==
    /\ NoPending
    /\ Mounted
    /\ ~loading
    /\ name # folderName
    /\ folderName' = name
    /\ UNCHANGED <<files, folders, binFiles, selectedFiles, loading, currentPath,
                   message, store, tokenAvail, tasks, timers, saved, input, output,
                   nOps>>

(* createFolder up to the await of apiCall('create_folder', ...), or the   *)
(* whole of it when the name is blank.  The Create button is disabled      *)
(* while loading or while the name is blank; the handler is taken here     *)
(* with any name, so that its own check of the name is what decides.       *)
createFolderStart ==
    /\ NoPending
    /\ Mounted
    /\ ~loading
    /\ IF IsBlankName(folderName)
       THEN /\ message' = handleMessage(
                   Text("Folder name cannot be empty", <<>>, "none", 0))
            /\ UNCHANGED <<loading, tasks, timers, nOps>>
       ELSE /\ CanStart(1)
            /\ loading' = TRUE
            /\ SetTasks(Spawn(tasks,
                   [Idle EXCEPT !.op = "createFolder", !.pc = "call",
                                !.arg = folderName, !.path = currentPath,
                                !.call = Begin("create_folder",
                                               FolderPath(currentPath, folderName),
                                               tokenAvail)]))
            /\ nOps' = nOps + 1
            /\ UNCHANGED message
    /\ UNCHANGED <<files, folders, binFiles, selectedFiles, currentPath, store,
                   tokenAvail, saved, folderName, input, output>>

(* fetchFiles() after the folder has been created *)
CreatedRefresh(ts, t, ok, token) ==
    [ts EXCEPT ![t] = FetchTask("fetchFiles", ts[t].path, "createFolder",
                                ts[t].arg, ok, token)]

(* The rest of createFolder: the message, setFolderName('') and            *)
(* fetchFiles(), or the catch; finally setLoading(false).                  *)
createFolderDone(t) ==
    /\ tasks[t].op = "createFolder"
    /\ Pending(tasks[t])
    /\ IF Failed(tasks[t])
       THEN /\ message' = handleMessage(
                   Text("Folder creation failed", <<>>, ErrorOf(tasks[t]), 0))
            /\ SetTasks([tasks EXCEPT ![t] = Idle])
            /\ UNCHANGED folderName
       ELSE /\ message' = handleMessage(
                   Text("Folder created", tasks[t].arg, "none", 0))
            /\ folderName' = <<>>
            /\ \E ok \in BOOLEAN :
                 SetTasks(CreatedRefresh(tasks, t, ok, tokenAvail))
    /\ loading' = FALSE
    /\ UNCHANGED <<files, folders, binFiles, selectedFiles, currentPath, store,
                   tokenAvail, saved, input, output, nOps>>

(* A store with a file, a folder and a folder inside it *)
NavStores ==
    { {<<"a.txt">>, <<"docs", Slash, "b.txt">>,
       <<"docs", Slash, "sub", Slash, "c.txt">>} }

InitNav ==
    /\ files = <<>>
    /\ folders = <<>>
    /\ binFiles = <<>>
    /\ selectedFiles = <<>>
    /\ loading = FALSE
    /\ currentPath = <<>>
    /\ message = [show |-> FALSE, text |-> NoText]
    /\ store \in NavStores
    /\ tokenAvail \in BOOLEAN
    /\ tasks = [t \in Tasks |->
                  IF t = 1 THEN InitTask ELSE IF t = 2 THEN Reserved ELSE Idle]
    /\ timers = <<>>
    /\ saved = <<>>
    /\ folderName = <<>>
    /\ input = Nothing
    /\ output = Nothing
    /\ nOps = 0

----------------------------------------------------------------------------
(* The key codec on its own: cleanFileKey and cleanBinFileKey applied to   *)
(* arbitrary keys, and to the keys the earlier revision's handleUpload     *)
(* builds.                                                                 *)

(* `public/${user.userId}/${file.webkitRelativePath || file.name}` *)
toStorageKey(path, userId) == UserPrefix(userId) \o path

Users == {"u1", "u2"}

PathAtoms == {"a.txt", "docs", Slash, BinSeg}

Paths == UNION {[1..n -> PathAtoms] : n \in 0..MaxLen}

(* What a key may begin with: nothing, a whole prefix, or part of one *)
Heads ==
    {<<>>, <<"public">>, <<"public", Slash>>, <<"private", Slash>>}
    \cup {<<"public", Slash, u>> : u \in Users}
    \cup {UserPrefix(u) : u \in Users}
    \cup {BinPrefix(u) : u \in Users}

Keys == {h \o p : h \in Heads, p \in Paths}

CodecInputs ==
    [kind : {"path"}, userId : Users, path : Paths]
    \cup [kind : {"key"}, userId : Users, key : Keys]

InitCodec ==
    /\ files = <<>>
    /\ folders = <<>>
    /\ binFiles = <<>>
    /\ selectedFiles = <<>>
    /\ loading = FALSE
    /\ currentPath = <<>>
    /\ message = [show |-> FALSE, text |-> NoText]
    /\ store = {}
    /\ tokenAvail = TRUE
    /\ tasks = [t \in Tasks |-> Idle]
    /\ timers = <<>>
    /\ saved = <<>>
    /\ folderName = <<>>
    /\ input \in CodecInputs
    /\ output = Nothing
    /\ nOps = 0

program == <<files, folders, binFiles, selectedFiles, loading, currentPath,
             message, store, tokenAvail, tasks, timers, saved, folderName, nOps>>

(* The storage key of the path is built *)
applyToStorageKey ==
    /\ input.kind = "path"
    /\ output = Nothing
    /\ output' = [kind |-> "stored", key |-> toStorageKey(input.path, input.userId)]
    /\ UNCHANGED <<program, input>>

(* ... and cleaned again *)
applyCleanToStored ==
    /\ output.kind = "stored"
    /\ output' = [kind |-> "back", path |-> cleanFileKey(output.key, input.userId)]
    /\ UNCHANGED <<program, input>>

(* Both cleaners are applied to the key *)
applyClean ==
    /\ input.kind = "key"
    /\ output = Nothing
    /\ output' = [kind |-> "cleaned",
                  file |-> cleanFileKey(input.key, input.userId),
                  bin |-> cleanBinFileKey(input.key, input.userId)]
    /\ UNCHANGED <<program, input>>

NextCodec == applyToStorageKey \/ applyCleanToStored \/ applyClean

SpecCodec == InitCodec /\ [][NextCodec]_vars

----------------------------------------------------------------------------
(* How apiCall settles once it has a token or has given up on one: what    *)
(* it returns or throws for each way the request can end.  An error is a   *)
(* plain Error; all a caller can tell it by is its message.                *)

TokenMissing == "Authentication token missing after retries."

TokenMissingEarlier == "Authentication token is missing."

RequestFailed == "API request failed"

Guidance ==
    "Failed to communicate with the server. Please check your network or API configuration."

CallFailedEarlier == "API call failed."

ServerMessages == {"Not found", "Access denied"}

(* response.body.json(): a JSON object with a message, a JSON string, or   *)
(* null.                                                                   *)
Bodies ==
    [kind : {"object"}, message : ServerMessages]
    \cup [kind : {"string"}, message : ServerMessages \cup {""}]
    \cup [kind : {"null"}, message : {""}]

Statuses == {200, 201, 400, 404, 500}

(* What the library rejects with: the message of its error *)
RejectMessages == ServerMessages \cup {"", "Unknown error"}

TransportMessages == {"", "Network Error", "Failed to fetch"}

(* The ways the try block can go: no token; the await of .response         *)
(* resolves with a status and a body; it rejects for a response with an    *)
(* error status; it rejects because no response was reachable.  Whether    *)
(* the library resolves or rejects on an error status is not in this       *)
(* repository, so both are taken.                                          *)
GatewayInputs ==
    [kind : {"notoken"}]
    \cup [kind : {"resolved"}, status : Statuses, body : Bodies]
    \cup [kind : {"refused"}, status : {s \in Statuses : s >= 400},
          message : RejectMessages]
    \cup [kind : {"transport"}, message : TransportMessages]

(* data || ... : null and the empty string are falsy *)
Falsy(body) == body.kind = "null" \/ (body.kind = "string" /\ body.message = "")

(* new Error(data): the message is String(data) *)
ToMessage(body) == IF body.kind = "object" THEN "[object Object]" ELSE body.message

Returned(body) == [kind |-> "returned", data |-> body]

Thrown(msg) == [kind |-> "thrown", message |-> msg]

(* catch (error) { throw new Error(error.message || '...') } *)
Rethrown(msg, fallback) == Thrown(IF msg = "" THEN fallback ELSE msg)

(* The latest revision *)
apiCallSettles(in) ==
    CASE in.kind = "notoken" -> Rethrown(TokenMissing, Guidance)
      [] in.kind = "resolved" ->
            IF in.status >= 400
            THEN Rethrown(IF Falsy(in.body) THEN RequestFailed
                          ELSE ToMessage(in.body), Guidance)
            ELSE Returned(in.body)
      [] OTHER -> Rethrown(in.message, Guidance)

(* The earlier revision: return await response.body.json() whatever the    *)
(* status.                                                                 *)
apiCallSettlesEarlier(in) ==
    CASE in.kind = "notoken" -> Rethrown(TokenMissingEarlier, CallFailedEarlier)
      [] in.kind = "resolved" -> Returned(in.body)
      [] OTHER -> Rethrown(in.message, CallFailedEarlier)

InitGateway ==
    /\ files = <<>>
    /\ folders = <<>>
    /\ binFiles = <<>>
    /\ selectedFiles = <<>>
    /\ loading = FALSE
    /\ currentPath = <<>>
    /\ message = [show |-> FALSE, text |-> NoText]
    /\ store = {}
    /\ tokenAvail = TRUE
    /\ tasks = [t \in Tasks |-> Idle]
    /\ timers = <<>>
    /\ saved = <<>>
    /\ folderName = <<>>
    /\ input \in GatewayInputs
    /\ output = Nothing
    /\ nOps = 0

applyApiCall ==
    /\ output = Nothing
    /\ output' = [kind |-> "latest", end |-> apiCallSettles(input)]
    /\ UNCHANGED <<program, input>>

applyApiCallEarlier ==
    /\ output = Nothing
    /\ output' = [kind |-> "earlier", end |-> apiCallSettlesEarlier(input)]
    /\ UNCHANGED <<program, input>>

NextGateway == applyApiCall \/ applyApiCallEarlier

SpecGateway == InitGateway /\ [][NextGateway]_vars

----------------------------------------------------------------------------
(* The revision of src/unnamed/part_002 (accessLevel = 'guest'): its       *)
(* apiCall, and the listings its mount effect starts.                      *)

(* const token = session.tokens?.idToken?.toString(); the request follows  *)
(* with `Bearer ${token}` whatever token is.                               *)
Unguarded(c, token) ==
    [c EXCEPT !.phase = "inflight", !.acq = @ + 1, !.bearer = token]

BeginGuest(action, key, token) ==
    Unguarded([NoCall EXCEPT !.phase = "acquire", !.action = action, !.key = key],
              token)

(* fetchFiles() / fetchBinFiles() of part_002 up to the await of apiCall *)
FetchTaskGuest(op, ok, token) ==
    IF ok
    THEN [Idle EXCEPT !.op = op, !.pc = "call", !.cause = "mount",
                      !.call = BeginGuest("list",
                                 IF op = "fetchFilesGuest" THEN <<>>
                                 ELSE <<BinSeg, Slash>>, token)]
    ELSE [Idle EXCEPT !.op = op, !.pc = "userErr", !.cause = "mount",
                      !.err = "NotSignedIn"]

MountTask == [Idle EXCEPT !.op = "mountGuest", !.pc = "user"]

InitGuest ==
    /\ files = <<>>
    /\ folders = <<>>
    /\ binFiles = <<>>
    /\ selectedFiles = <<>>
    /\ loading = FALSE
    /\ currentPath = <<>>
    /\ message = [show |-> FALSE, text |-> NoText]
    /\ store \in InitStores
    /\ tokenAvail \in BOOLEAN
    /\ tasks = [t \in Tasks |-> IF t = 1 THEN MountTask ELSE Idle]
    /\ timers = <<>>
    /\ saved = <<>>
    /\ folderName = <<>>
    /\ input = Nothing
    /\ output = Nothing
    /\ nOps = 0

(* useEffect(() => { fetchFiles(); fetchBinFiles(); }, []) *)
mountGuest(t) ==
    /\ tasks[t].op = "mountGuest"
    /\ \E ok1, ok2 \in BOOLEAN :
         SetTasks(Spawn([tasks EXCEPT ![t] =
                            FetchTaskGuest("fetchFilesGuest", ok1, tokenAvail)],
                        FetchTaskGuest("fetchBinGuest", ok2, tokenAvail)))
    /\ UNCHANGED <<client, store, tokenAvail, saved, nOps>>
    /\ UNCHANGED <<folderName, input, output>>

(* setFiles(response?.files || []), or the catch *)
fetchFilesGuest(t) ==
    /\ tasks[t].op = "fetchFilesGuest"
    /\ Pending(tasks[t])
    /\ IF Failed(tasks[t])
       THEN /\ message' = handleMessage(
                   Text("Failed to fetch files", <<>>, ErrorOf(tasks[t]), 0))
            /\ UNCHANGED files
       ELSE /\ files' = tasks[t].call.data.files
            /\ UNCHANGED message
    /\ SetTasks([tasks EXCEPT ![t] = Idle])
    /\ UNCHANGED <<folders, binFiles, selectedFiles, loading, currentPath, store,
                   tokenAvail, saved, nOps>>
    /\ UNCHANGED <<folderName, input, output>>

(* setBinFiles(response?.files || []), or the catch *)
fetchBinFilesGuest(t) ==
    /\ tasks[t].op = "fetchBinGuest"
    /\ Pending(tasks[t])
    /\ IF Failed(tasks[t])
       THEN /\ message' = handleMessage(
                   Text("Failed to fetch bin", <<>>, ErrorOf(tasks[t]), 0))
            /\ UNCHANGED binFiles
       ELSE /\ binFiles' = tasks[t].call.data.files
            /\ UNCHANGED message
    /\ SetTasks([tasks EXCEPT ![t] = Idle])
    /\ UNCHANGED <<files, folders, selectedFiles, loading, currentPath, store,
                   tokenAvail, saved, nOps>>
    /\ UNCHANGED <<folderName, input, output>>

----------------------------------------------------------------------------
(* The revision of src/unnamed/part_001: its apiCall, whose catch reports  *)
(* through onMessage before it rethrows, and the listings its mount effect *)
(* starts.                                                                 *)

(* How the try block of this apiCall can end.  Auth is not imported in     *)
(* the file: where no binding of that name exists the header expression    *)
(* throws a ReferenceError; getCurrentUser can reject; otherwise the       *)
(* request is made and is answered or not.                                 *)
EndsV1 == {"ok", "network", "NotSignedIn", "ReferenceError"}

BeginV1(action, key) ==
    [NoCall EXCEPT !.phase = "inflight", !.action = action, !.key = key]

RespondedV1(c, end, st) ==
    IF end = "ok"
    THEN [c EXCEPT !.phase = "ok", !.data = ServerData(c.action, c.key, st)]
    ELSE [c EXCEPT !.phase = "failed",
                   !.err = IF end = "network" THEN "NetworkError" ELSE end]

(* fetchFiles() / fetchBinFiles() of part_001 up to the await of apiCall *)
FetchTaskV1(op, ok) ==
    IF ok
    THEN [Idle EXCEPT !.op = op, !.pc = "call", !.cause = "mount",
                      !.call = BeginV1("list",
                                 IF op = "fetchFilesV1" THEN <<>>
                                 ELSE <<BinSeg, Slash>>)]
    ELSE [Idle EXCEPT !.op = op, !.pc = "userErr", !.cause = "mount",
                      !.err = "NotSignedIn"]

MountTaskV1 == [Idle EXCEPT !.op = "mountV1", !.pc = "user"]

InitV1 ==
    /\ files = <<>>
    /\ folders = <<>>
    /\ binFiles = <<>>
    /\ selectedFiles = <<>>
    /\ loading = FALSE
    /\ currentPath = <<>>
    /\ message = [show |-> FALSE, text |-> NoText]
    /\ store \in InitStores
    /\ tokenAvail \in BOOLEAN
    /\ tasks = [t \in Tasks |-> IF t = 1 THEN MountTaskV1 ELSE Idle]
    /\ timers = <<>>
    /\ saved = <<>>
    /\ folderName = <<>>
    /\ input = Nothing
    /\ output = Nothing
    /\ nOps = 0

(* useEffect(() => { fetchFiles(); fetchBinFiles(); }, []) *)
mountV1(t) ==
    /\ tasks[t].op = "mountV1"
    /\ \E ok1, ok2 \in BOOLEAN :
         SetTasks(Spawn([tasks EXCEPT ![t] = FetchTaskV1("fetchFilesV1", ok1)],
                        FetchTaskV1("fetchBinV1", ok2)))
    /\ UNCHANGED <<client, store, tokenAvail, saved, nOps>>
    /\ UNCHANGED <<folderName, input, output>>

(* The try block of apiCall ends: return await response.body.json(), or    *)
(* the catch: onMessage(`API call failed: ${error.message}`); throw error  *)
apiCallV1(t) ==
    /\ NoPending
    /\ tasks[t].pc = "call"
    /\ tasks[t].call.phase = "inflight"
    /\ \E end \in EndsV1 :
         /\ SetTasks([tasks EXCEPT ![t].call = RespondedV1(@, end, store)])
         /\ message' = IF end = "ok" THEN message
                       ELSE handleMessage(Text("API call failed", <<>>,
                                               tasks'[t].call.err, 0))
    /\ UNCHANGED <<files, folders, binFiles, selectedFiles, loading, currentPath,
                   store, tokenAvail, saved, nOps>>
    /\ UNCHANGED <<folderName, input, output>>

(* setFiles(response?.files || []), or the catch *)
fetchFilesV1(t) ==
    /\ tasks[t].op = "fetchFilesV1"
    /\ Pending(tasks[t])
    /\ IF Failed(tasks[t])
       THEN /\ message' = handleMessage(
                   Text("Failed to fetch files", <<>>, ErrorOf(tasks[t]), 0))
            /\ UNCHANGED files
       ELSE /\ files' = tasks[t].call.data.files
            /\ UNCHANGED message
    /\ SetTasks([tasks EXCEPT ![t] = Idle])
    /\ UNCHANGED <<folders, binFiles, selectedFiles, loading, currentPath, store,
                   tokenAvail, saved, nOps>>
    /\ UNCHANGED <<folderName, input, output>>

(* setBinFiles(response?.files || []), or the catch *)
fetchBinFilesV1(t) ==
    /\ tasks[t].op = "fetchBinV1"
    /\ Pending(tasks[t])
    /\ IF Failed(tasks[t])
       THEN /\ message' = handleMessage(
                   Text("Failed to fetch bin", <<>>, ErrorOf(tasks[t]), 0))
            /\ UNCHANGED binFiles
       ELSE /\ binFiles' = tasks[t].call.data.files
            /\ UNCHANGED message
    /\ SetTasks([tasks EXCEPT ![t] = Idle])
    /\ UNCHANGED <<files, folders, selectedFiles, loading, currentPath, store,
                   tokenAvail, saved, nOps>>
    /\ UNCHANGED <<folderName, input, output>>

----------------------------------------------------------------------------
(* part_001: selection and batch download.  accessLevel is 'guest', so     *)
(* getFileUrl returns the bucket address of the key without a request.     *)

(* e.target.checked ? [...selectedFiles, file]                             *)
(*                  : selectedFiles.filter(f => f !== file)                *)
CheckedV1(sel, file, checked) ==
    IF checked THEN Append(sel, file) ELSE Without(sel, file)

(* The checkbox shows selectedFiles.includes(file): a click asks for the   *)
(* opposite.                                                               *)
checkboxV1(file) ==
    /\ NoPending
    /\ ~loading
    /\ Contains(files, file)
    /\ selectedFiles' = CheckedV1(selectedFiles, file,
                                  ~Contains(selectedFiles, file))
    /\ UNCHANGED <<files, folders, binFiles, loading, currentPath, message, store,
                   tokenAvail, tasks, timers, saved, nOps>>
    /\ UNCHANGED <<folderName, input, output>>

(* selectedFiles.map(async (fileKey) => { const url = await getFileUrl(... *)
MembersV1(sel) ==
    [i \in 1..Len(sel) |->
        [name |-> sel[i], stage |-> "xfer",
         call |-> [BeginV1("get_file", sel[i]) EXCEPT
                      !.phase = "ok", !.data = [NoData EXCEPT !.url = sel[i]]],
         xfer |-> "none"]]

(* handleMultipleDownload of part_001 up to the await of Promise.all: the  *)
(* handler returns at once on an empty selection; otherwise                *)
(* setLoading(true) and getCurrentUser (ok says whether it resolves).      *)
handleMultipleDownloadV1 ==
    /\ NoPending
    /\ ~loading
    /\ nOps < MaxOps
    /\ FreeSlots(tasks) # {}
    /\ IF selectedFiles = <<>>
       THEN UNCHANGED <<loading, tasks, timers>>
       ELSE /\ loading' = TRUE
            /\ \E ok \in BOOLEAN :
                 SetTasks(Spawn(tasks,
                    IF ok
                    THEN [Idle EXCEPT !.op = "multiV1", !.pc = "all",
                                      !.sel = selectedFiles,
                                      !.members = MembersV1(selectedFiles)]
                    ELSE [Idle EXCEPT !.op = "multiV1", !.pc = "userErr",
                                      !.err = "NotSignedIn"]))
    /\ nOps' = nOps + 1
    /\ UNCHANGED <<files, folders, binFiles, selectedFiles, currentPath, message,
                   store, tokenAvail, saved>>
    /\ UNCHANGED <<folderName, input, output>>

(* const response = await fetch(url): the bucket is not the control        *)
(* plane's store, so any end is possible for any key.                      *)
memberFetchV1(t, i) ==
    /\ NoPending
    /\ tasks[t].op = "multiV1"
    /\ Running(tasks[t])
    /\ tasks[t].members[i].stage = "xfer"
    /\ \E x \in FetchEnds :
         LET tk == [tasks[t] EXCEPT !.members[i] = Fetched(@, x)]
         IN SetTasks([tasks EXCEPT ![t] = Joined(tk, "FetchFailed")])
    /\ UNCHANGED <<client, store, tokenAvail, saved, nOps>>
    /\ UNCHANGED <<folderName, input, output>>

(* After Promise.all: the archive is saved and the selection cleared, or   *)
(* the catch reports; finally setLoading(false).                           *)
handleMultipleDownloadDoneV1(t) ==
    /\ tasks[t].op = "multiV1"
    /\ Pending(tasks[t])
    /\ IF DownloadSucceeded(tasks[t])
       THEN /\ saved' = Append(saved, Save(ZipName, ZipEntries(tasks[t].members)))
            /\ UNCHANGED message
       ELSE /\ message' = handleMessage(
                   Text("Download failed", <<>>, tasks[t].err, 0))
            /\ UNCHANGED saved
    /\ selectedFiles' = SelectionAfter(DownloadSucceeded(tasks[t]), selectedFiles)
    /\ loading' = FALSE
    /\ SetTasks([tasks EXCEPT ![t] =
            IF tasks[t].pc = "userErr" THEN Idle ELSE Leftover(tasks[t])])
    /\ UNCHANGED <<files, folders, binFiles, currentPath, store, tokenAvail, nOps>>
    /\ UNCHANGED <<folderName, input, output>>

----------------------------------------------------------------------------
(* Navigation on its own: the path after any walk through the folders,     *)
(* each listing showing the folders of the path it was asked for.          *)

WalkNames == {"docs", "sub", "new", "img", "tmp"}

MaxDepth == 10

(* The entry fetchFiles shows for the child folder of the scope: list      *)
(* answers with the absolute key, cleanFileKey strips the user prefix.     *)
DisplayedFolder(scope, name) ==
    cleanFileKey(UserPrefix(UserId) \o scope \o <<name, Slash>>, UserId)

InitWalk ==
    /\ files = <<>>
    /\ folders = <<>>
    /\ binFiles = <<>>
    /\ selectedFiles = <<>>
    /\ loading = FALSE
    /\ currentPath = <<>>
    /\ message = [show |-> FALSE, text |-> NoText]
    /\ store = {}
    /\ tokenAvail = TRUE
    /\ tasks = [t \in Tasks |-> Idle]
    /\ timers = <<>>
    /\ saved = <<>>
    /\ folderName = <<>>
    /\ input = Nothing
    /\ output = Nothing
    /\ nOps = 0

(* navigateToFolder(folder) on an entry of the current path's listing;     *)
(* output remembers the step and the path it started from.                 *)
walkDown(name) ==
    LET folder == DisplayedFolder(currentPath, name) IN
    /\ Len(ChildOf(currentPath, folder)) <= MaxDepth
    /\ currentPath' = ChildOf(currentPath, folder)
    /\ input' = [kind |-> "folder", folder |-> folder]
    /\ output' = [kind |-> "down", prev |-> currentPath]
    /\ UNCHANGED <<files, folders, binFiles, selectedFiles, loading, message,
                   store, tokenAvail, tasks, timers, saved, folderName, nOps>>

(* navigateUp(), from the root as well *)
walkUp ==
    /\ currentPath' = ParentOf(currentPath)
    /\ input' = Nothing
    /\ output' = [kind |-> "up", prev |-> currentPath]
    /\ UNCHANGED <<files, folders, binFiles, selectedFiles, loading, message,
                   store, tokenAvail, tasks, timers, saved, folderName, nOps>>

NextWalk == (\E name \in WalkNames : walkDown(name)) \/ walkUp

SpecWalk == InitWalk /\ [][NextWalk]_vars

----------------------------------------------------------------------------
(* Signing in: the pages of Index.tsx before a user is known.  output      *)
(* holds the page's state (authFlow, pendingEmail) and the browser's       *)
(* session storage, input the step that was taken last, tasks the calls to *)
(* the identity provider that are in flight.                               *)

CodeLength == 6

MinPassword == 8

MaxSteps == 5

Emails == {<<>>, <<"a@x">>, <<"b@x">>}

Codes == {[i \in 1..CodeLength |-> i], [i \in 1..CodeLength |-> 0]}

Passwords == {[i \in 1..MinPassword |-> "x"], [i \in 1..MinPassword |-> "y"]}

authFlow == output.authFlow

pendingEmail == output.pendingEmail

sessionStorage == output.sessionStorage

(* sessionStorage.getItem: <<>> stands for null, <<v>> for the value v *)
getItem(s, key) == IF key \in DOMAIN s THEN <<s[key]>> ELSE <<>>

setItem(s, key, value) ==
    [k \in DOMAIN s \cup {key} |-> IF k = key THEN value ELSE s[k]]

removeItem(s, key) == [k \in DOMAIN s \ {key} |-> s[k]]

(* Index.tsx, the handlers handed to the forms *)
handleSignupSuccess(a, email) ==
    [a EXCEPT !.pendingEmail = email, !.authFlow = "verify-signup"]

handleForgotPassword(a, email) ==
    [a EXCEPT !.pendingEmail = email, !.authFlow = "verify-reset"]

(* flow is the authFlow of the render the handler was made in *)
handleVerificationComplete(a, flow) ==
    CASE flow = "verify-signup" ->
            [a EXCEPT !.authFlow = "login", !.pendingEmail = <<>>]
      [] flow = "verify-reset" -> [a EXCEPT !.authFlow = "new-password"]
      [] OTHER -> a

handlePasswordReset(a) == [a EXCEPT !.authFlow = "login", !.pendingEmail = <<>>]

(* A Back that leaves the address in place *)
handleBackKeeps(a) == [a EXCEPT !.authFlow = "login"]

handleBack(a) == [a EXCEPT !.authFlow = "login", !.pendingEmail = <<>>]

(* The form Index.tsx renders for an authFlow *)
Page(flow) ==
    CASE flow \in {"verify-signup", "verify-reset"} -> "VerificationForm"
      [] flow = "new-password" -> "NewPasswordForm"
      [] OTHER -> "LoginForm"

(* A call to the identity provider a form awaits: email and flow are what  *)
(* the handler closed over.                                                *)
Awaiting(op, email, flow) ==
    [Idle EXCEPT !.op = op, !.pc = "await", !.arg = email, !.cause = flow]

(* The tasks once authFlow is flow: a form that is no longer rendered is   *)
(* unmounted, its call goes on without it.                                 *)
Rendered(ts, flow) ==
    LET FormOf(op) ==
            CASE op = "confirmSignUp" -> "VerificationForm"
              [] op = "confirmResetPassword" -> "NewPasswordForm"
              [] OTHER -> "LoginForm"
    IN [t \in Tasks |->
           IF ts[t].pc = "await" /\ FormOf(ts[t].op) # Page(flow)
           THEN [ts[t] EXCEPT !.pc = "detached"] ELSE ts[t]]

(* useState(false) loading of the mounted form, set around its await *)
FormLoading(op) == \E t \in Tasks : tasks[t].op = op /\ tasks[t].pc = "await"

Settling(t, op) == tasks[t].op = op /\ tasks[t].pc \in {"await", "detached"}

Step(kind, email) == [kind |-> kind, email |-> email]

InitAuth ==
    /\ files = <<>>
    /\ folders = <<>>
    /\ binFiles = <<>>
    /\ selectedFiles = <<>>
    /\ loading = FALSE
    /\ currentPath = <<>>
    /\ message = [show |-> FALSE, text |-> NoText]
    /\ store = {}
    /\ tokenAvail = FALSE
    /\ tasks = [t \in Tasks |-> Idle]
    /\ timers = <<>>
    /\ saved = <<>>
    /\ folderName = <<>>
    /\ input = Step("none", <<>>)
    /\ output = [authFlow |-> "login", pendingEmail |-> <<>>,
                 sessionStorage |-> <<>>]
    /\ nOps = 0

authRest == <<files, folders, binFiles, selectedFiles, loading, currentPath,
              store, tokenAvail, saved, folderName>>

(* LoginForm.tsx handleForgotPassword up to await resetPassword; the       *)
(* button is not a submit button and is never disabled.                    *)
forgotPassword(email) ==
    /\ nOps < MaxSteps
    /\ Page(authFlow) = "LoginForm"
    /\ IF email = <<>>
       THEN /\ message' = handleMessage(Text("Please enter your email first.",
                                             <<>>, "none", 0))
            /\ input' = Step("no email", email)
            /\ UNCHANGED <<tasks, timers>>
       ELSE /\ FreeSlots(tasks) # {}
            /\ SetTasks(Spawn(tasks, Awaiting("resetPassword", email, authFlow)))
            /\ input' = Step("resetPassword", email)
            /\ UNCHANGED message
    /\ nOps' = nOps + 1
    /\ UNCHANGED <<authRest, output>>

(* resetPassword settles: onForgotPassword(email) after the notice *)
resetPasswordSettles(t, ok) ==
    /\ Settling(t, "resetPassword")
    /\ IF ok
       THEN /\ message' = handleMessage(Text("Reset code sent to your email.",
                                             <<>>, "none", 0))
            /\ output' = handleForgotPassword(output, tasks[t].arg)
            /\ input' = Step("reset code sent", tasks[t].arg)
       ELSE /\ message' = handleMessage(Text("Error", <<>>, "rejected", 0))
            /\ input' = Step("failed", tasks[t].arg)
            /\ UNCHANGED output
    /\ SetTasks(Rendered([tasks EXCEPT ![t] = Idle], output'.authFlow))
    /\ UNCHANGED <<authRest, nOps>>

(* SignupForm.tsx handleSignup up to await signUp; the email input is      *)
(* required and the submit button disabled while loading.                  *)
handleSignup(email) ==
    /\ nOps < MaxSteps
    /\ Page(authFlow) = "LoginForm"
    /\ email # <<>>
    /\ ~FormLoading("signUp")
    /\ FreeSlots(tasks) # {}
    /\ SetTasks(Spawn(tasks, Awaiting("signUp", email, authFlow)))
    /\ input' = Step("signUp", email)
    /\ nOps' = nOps + 1
    /\ UNCHANGED <<authRest, message, output>>

signUpSettles(t, ok) ==
    /\ Settling(t, "signUp")
    /\ IF ok
       THEN /\ message' = handleMessage(Text("Verification code sent to your email.",
                                             <<>>, "none", 0))
            /\ output' = handleSignupSuccess(output, tasks[t].arg)
            /\ input' = Step("signed up", tasks[t].arg)
       ELSE /\ message' = handleMessage(Text("Signup failed", <<>>, "rejected", 0))
            /\ input' = Step("failed", tasks[t].arg)
            /\ UNCHANGED output
    /\ SetTasks(Rendered([tasks EXCEPT ![t] = Idle], output'.authFlow))
    /\ UNCHANGED <<authRest, nOps>>

(* VerificationForm.tsx handleVerify; the button is disabled while loading *)
(* and unless the code has six digits.  type and email are the props of    *)
(* the render, onVerificationComplete the handler of that render.          *)
handleVerify(code) ==
    /\ nOps < MaxSteps
    /\ Page(authFlow) = "VerificationForm"
    /\ Len(code) = CodeLength
    /\ ~FormLoading("confirmSignUp")
    /\ IF authFlow = "verify-signup"
       THEN /\ FreeSlots(tasks) # {}
            /\ SetTasks(Spawn(tasks, Awaiting("confirmSignUp", pendingEmail,
                                              authFlow)))
            /\ input' = Step("confirmSignUp", pendingEmail)
            /\ UNCHANGED output
       ELSE LET s == setItem(setItem(sessionStorage, "resetCode", code),
                             "resetEmail", pendingEmail)
                a == handleVerificationComplete(
                         [output EXCEPT !.sessionStorage = s], authFlow)
            IN /\ output' = a
               /\ input' = Step("reset code stored", pendingEmail)
               /\ SetTasks(Rendered(tasks, a.authFlow))
    /\ nOps' = nOps + 1
    /\ UNCHANGED <<authRest, message>>

confirmSignUpSettles(t, ok) ==
    /\ Settling(t, "confirmSignUp")
    /\ IF ok
       THEN /\ message' = handleMessage(Text("Account verified successfully!",
                                             <<>>, "none", 0))
            /\ output' = handleVerificationComplete(output, tasks[t].cause)
            /\ input' = Step("verified", tasks[t].arg)
       ELSE /\ message' = handleMessage(Text("Verification failed", <<>>,
                                             "rejected", 0))
            /\ input' = Step("failed", tasks[t].arg)
            /\ UNCHANGED output
    /\ SetTasks(Rendered([tasks EXCEPT ![t] = Idle], output'.authFlow))
    /\ UNCHANGED <<authRest, nOps>>

(* NewPasswordForm.tsx handleSubmit up to await confirmResetPassword; both *)
(* inputs are required with minLength 8, the button disabled while loading *)
handleSubmit(password, confirmPassword) ==
    /\ nOps < MaxSteps
    /\ Page(authFlow) = "NewPasswordForm"
    /\ ~FormLoading("confirmResetPassword")
    /\ LET resetCode == getItem(sessionStorage, "resetCode")
           resetEmail == getItem(sessionStorage, "resetEmail")
           \* !value: null or ''
           Missing(item) == item = <<>> \/ item[1] = <<>>
       IN CASE password # confirmPassword \/ Len(password) < MinPassword ->
                  /\ message' = handleMessage(Text("Passwords do not match.",
                                                   <<>>, "none", 0))
                  /\ input' = Step("no match", <<>>)
                  /\ UNCHANGED <<tasks, timers, output>>
            [] password = confirmPassword /\ Len(password) >= MinPassword
               /\ (Missing(resetCode) \/ Missing(resetEmail)) ->
                  /\ message' = handleMessage(Text("Verification session expired.",
                                                   <<>>, "none", 0))
                  /\ output' = handleBack(output)
                  /\ input' = Step("expired", <<>>)
                  /\ SetTasks(Rendered(tasks, "login"))
            [] OTHER ->
                  /\ FreeSlots(tasks) # {}
                  /\ SetTasks(Spawn(tasks, Awaiting("confirmResetPassword",
                                                    resetEmail[1], authFlow)))
                  /\ input' = Step("confirmResetPassword", resetEmail[1])
                  /\ UNCHANGED <<message, output>>
    /\ nOps' = nOps + 1
    /\ UNCHANGED authRest

confirmResetPasswordSettles(t, ok) ==
    /\ Settling(t, "confirmResetPassword")
    /\ IF ok
       THEN LET s == removeItem(removeItem(sessionStorage, "resetCode"),
                                "resetEmail")
            IN /\ message' = handleMessage(Text("Password reset successfully!",
                                                <<>>, "none", 0))
               /\ output' = handlePasswordReset(
                                [output EXCEPT !.sessionStorage = s])
               /\ input' = Step("password reset", tasks[t].arg)
       ELSE /\ message' = handleMessage(Text("Failed to reset password", <<>>,
                                             "rejected", 0))
            /\ input' = Step("failed", tasks[t].arg)
            /\ UNCHANGED output
    /\ SetTasks(Rendered([tasks EXCEPT ![t] = Idle], output'.authFlow))
    /\ UNCHANGED <<authRest, nOps>>

(* The Back button of VerificationForm and of NewPasswordForm *)
backClicked ==
    /\ nOps < MaxSteps
    /\ Page(authFlow) # "LoginForm"
    /\ output' = handleBack(output)
    /\ input' = Step("back", <<>>)
    /\ SetTasks(Rendered(tasks, "login"))
    /\ nOps' = nOps + 1
    /\ UNCHANGED <<authRest, message>>

NextAuth ==
    \/ \E email \in Emails : forgotPassword(email)
    \/ \E t \in Tasks, ok \in BOOLEAN : resetPasswordSettles(t, ok)
    \/ \E email \in Emails : handleSignup(email)
    \/ \E t \in Tasks, ok \in BOOLEAN : signUpSettles(t, ok)
    \/ \E code \in Codes : handleVerify(code)
    \/ \E t \in Tasks, ok \in BOOLEAN : confirmSignUpSettles(t, ok)
    \/ \E password \in Passwords, confirmPassword \in Passwords :
           handleSubmit(password, confirmPassword)
    \/ \E t \in Tasks, ok \in BOOLEAN : confirmResetPasswordSettles(t, ok)
    \/ backClicked
    \/ closeMessage

SpecAuth == InitAuth /\ [][NextAuth]_vars

----------------------------------------------------------------------------
(* Specifications *)

(* What every configuration of the file manager does *)
Core ==
    \/ TokenArrives
    \/ apiCallRetry
    \/ \E t \in Tasks : apiCallResponse(t)
    \/ \E t \in Tasks : fetchFiles(t)
    \/ \E t \in Tasks : fetchBinFiles(t)
    \/ \E t \in Tasks : initialize(t)
    \/ closeMessage

Members ==
    \/ \E t \in Tasks, i \in 1..MaxBatch :
          i <= Len(tasks[t].members) /\ memberResponse(t, i)
    \/ \E t \in Tasks, i \in 1..MaxBatch :
          i <= Len(tasks[t].members) /\ memberFetch(t, i)

BinOps ==
    \/ \E f \in FileNames : moveToBinStart(f)
    \/ \E t \in Tasks : moveToBinDone(t)
    \/ \E f \in FileNames : restoreFromBinStart(f)
    \/ \E t \in Tasks : restoreFromBinDone(t)

UploadOps ==
    \/ \E batch \in Batches : handleUploadStart(batch)
    \/ \E t \in Tasks : handleUploadDone(t)

DownloadOps ==
    \/ \E f \in FileNames : handleDownloadStart(f)
    \/ \E t \in Tasks : handleDownloadDone(t)
    \/ \E f \in FileNames : toggleFileSelection(f)
    \/ handleMultipleDownloadStart
    \/ \E t \in Tasks : handleMultipleDownloadDone(t)

Next == Core \/ Members \/ BinOps \/ UploadOps \/ DownloadOps

Spec == Init /\ [][Next]_vars

(* The recycle bin: listing, move and restore *)
NextBin == Core \/ BinOps

SpecBin == Init /\ [][NextBin]_vars

(* Uploads *)
NextUpload == Core \/ Members \/ UploadOps

SpecUpload == Init /\ [][NextUpload]_vars

(* Downloads *)
NextDownload == Core \/ Members \/ DownloadOps

SpecDownload == Init /\ [][NextDownload]_vars

(* The part_002 revision from its mount to the end of its two listings *)
NextGuest ==
    \/ TokenArrives
    \/ \E t \in Tasks : mountGuest(t)
    \/ \E t \in Tasks : apiCallResponse(t)
    \/ \E t \in Tasks : fetchFilesGuest(t)
    \/ \E t \in Tasks : fetchBinFilesGuest(t)
    \/ closeMessage

SpecGuest == InitGuest /\ [][NextGuest]_vars

(* Folders: navigation, selection and batch download *)
NavOps ==
    \/ \E f \in FolderNames : navigateToFolder(f)
    \/ navigateUp
    \/ \E f \in FileNames \cup {<<"docs", Slash, "b.txt">>} :
          toggleFileSelection(f)
    \/ handleMultipleDownloadStart
    \/ \E t \in Tasks : handleMultipleDownloadDone(t)

NextNav == Core \/ Members \/ NavOps

SpecNav == InitNav /\ [][NextNav]_vars

(* The part_001 revision from its mount to the end of its two listings *)
NextV1 ==
    \/ \E t \in Tasks : mountV1(t)
    \/ \E t \in Tasks : apiCallV1(t)
    \/ \E t \in Tasks : fetchFilesV1(t)
    \/ \E t \in Tasks : fetchBinFilesV1(t)
    \/ closeMessage

SpecV1 == InitV1 /\ [][NextV1]_vars

(* The part_001 revision with its checkboxes and its batch download *)
BatchOpsV1 ==
    \/ \E i \in 1..Len(files) : checkboxV1(files[i])
    \/ handleMultipleDownloadV1
    \/ \E t \in Tasks, i \in 1..MaxBatch :
          i <= Len(tasks[t].members) /\ memberFetchV1(t, i)
    \/ \E t \in Tasks : handleMultipleDownloadDoneV1(t)

NextBatchV1 == NextV1 \/ BatchOpsV1

SpecBatchV1 == InitV1 /\ [][NextBatchV1]_vars

(* Inside a folder: navigation, then download, batch download and move *)
NestedNames == FileNames \cup {<<"docs", Slash, "b.txt">>}

NestedOps ==
    \/ \E f \in FolderNames : navigateToFolder(f)
    \/ navigateUp
    \/ \E f \in NestedNames : handleDownloadStart(f)
    \/ \E t \in Tasks : handleDownloadDone(t)
    \/ \E f \in NestedNames : moveToBinStart(f)
    \/ \E t \in Tasks : moveToBinDone(t)
    \/ \E f \in NestedNames : toggleFileSelection(f)
    \/ handleMultipleDownloadStart
    \/ \E t \in Tasks : handleMultipleDownloadDone(t)

NextNested == Core \/ Members \/ NestedOps

SpecNested == InitNav /\ [][NextNested]_vars

(* Navigation alone.  The effect and the continuations of settled awaits   *)
(* are run by the event loop, and the backoff timers fire; nothing says    *)
(* that the control plane answers.                                         *)
NextPath ==
    \/ Core
    \/ \E f \in FolderNames : navigateToFolder(f)
    \/ navigateUp

SpecPath ==
    /\ InitNav
    /\ [][NextPath]_vars
    /\ WF_vars(\E t \in Tasks : initialize(t))
    /\ WF_vars(\E t \in Tasks : fetchFiles(t))
    /\ WF_vars(\E t \in Tasks : fetchBinFiles(t))
    /\ WF_vars(apiCallRetry)

(* Uploads of one file and batch downloads over the listing fetches, with  *)
(* the event loop running the continuations, the timers firing and every   *)
(* request and transfer answered or failed in the end.  The notification   *)
(* is left open: closing it touches neither loading nor a handler.         *)
InitLoading == Init /\ store = {<<"a.txt">>, <<"b.txt">>}

LoadingOps ==
    \/ \E batch \in Batches : Len(batch) = 1 /\ handleUploadStart(batch)
    \/ \E t \in Tasks : handleUploadDone(t)
    \/ toggleFileSelection(<<"a.txt">>)
    \/ handleMultipleDownloadStart
    \/ \E t \in Tasks : handleMultipleDownloadDone(t)

NextLoading ==
    \/ TokenArrives
    \/ apiCallRetry
    \/ \E t \in Tasks : apiCallResponse(t)
    \/ \E t \in Tasks : fetchFiles(t)
    \/ \E t \in Tasks : fetchBinFiles(t)
    \/ \E t \in Tasks : initialize(t)
    \/ Members
    \/ LoadingOps

Continues ==
    \/ \E t \in Tasks : initialize(t)
    \/ \E t \in Tasks : fetchFiles(t)
    \/ \E t \in Tasks : fetchBinFiles(t)
    \/ \E t \in Tasks : handleUploadDone(t)
    \/ \E t \in Tasks : handleMultipleDownloadDone(t)

Answers ==
    \/ \E t \in Tasks : apiCallResponse(t)
    \/ \E t \in Tasks, i \in 1..MaxBatch :
          i <= Len(tasks[t].members) /\ memberResponse(t, i)
    \/ \E t \in Tasks, i \in 1..MaxBatch :
          i <= Len(tasks[t].members) /\ memberFetch(t, i)

SpecLoading ==
    /\ InitLoading
    /\ [][NextLoading]_vars
    /\ WF_vars(Continues)
    /\ WF_vars(Answers)
    /\ WF_vars(apiCallRetry)

(* Folders: creation and navigation *)
FolderOps ==
    \/ \E name \in FolderInputs : setFolderName(name)
    \/ createFolderStart
    \/ \E t \in Tasks : createFolderDone(t)
    \/ \E f \in FolderNames : navigateToFolder(f)
    \/ navigateUp

NextFolder == Core \/ FolderOps

SpecFolder == InitNav /\ [][NextFolder]_vars

----------------------------------------------------------------------------
(* Properties *)

(* Every apiCall under way: the handlers' own and their members' *)
Calls ==
    {tasks[t].call : t \in Tasks}
    \cup UNION {{tasks[t].members[i].call : i \in 1..Len(tasks[t].members)} :
                  t \in Tasks}

(* The fetch tasks of kind op that this step starts *)
Started(op) == {u \in Tasks : tasks'[u].op = op /\ tasks'[u] # tasks[u]}

StartedFor(op, cause) == {u \in Started(op) : tasks'[u].cause = cause}

(* Every transfer of the batch ended with a 2xx response *)
AllTransferred(tk) == \A i \in 1..Len(tk.members) : tk.members[i].xfer = "ok"

(* C1: a call that has failed with AuthNotReady has no retry left, has     *)
(* acquired the token retries + 1 times and has waited retries times.      *)
C1_RetryBound ==
    \A c \in Calls :
        (c.phase = "failed" /\ c.err = "AuthNotReady")
        => (c.retries = 0 /\ c.acq = Retries + 1 /\ c.waits = Retries)

C1_Exhausted == \E c \in Calls : c.phase = "failed" /\ c.err = "AuthNotReady"

(* C2: every request on its way to the control plane carries a token that  *)
(* was acquired.                                                           *)
C2_BearerAcquired == \A c \in Calls : c.phase = "inflight" => c.bearer

(* C3: handleUpload reports 'Uploaded N file(s)' only if every file's      *)
(* transfer succeeded.                                                     *)
C3_UploadedOnlyIfAllTransferred ==
    [][\A t \in Tasks :
          (handleUploadDone(t) /\ message'.text.tag = "Uploaded")
          => AllTransferred(tasks[t])]_vars

(* C4: whatever the outcome of the batch, the step that ends handleUpload  *)
(* after its transfers have settled starts exactly one fetchFiles.         *)
C4_OneRefreshAfterBatch ==
    [][\A t \in Tasks :
          (handleUploadDone(t) /\ tasks[t].pc \in {"allOk", "allErr"})
          => Cardinality(Started("fetchFiles")) = 1]_vars

(* C5: the step that ends a failed fetchFiles or fetchBinFiles reports the *)
(* failure and leaves files, folders and binFiles as they were.            *)
C5_FailedFetchKeepsLists ==
    [][\A t \in Tasks :
          ((fetchFiles(t) \/ fetchBinFiles(t)) /\ Failed(tasks[t]))
          => /\ UNCHANGED <<files, folders, binFiles>>
             /\ message'.show
             /\ message'.text.tag \in {"Failed to fetch files", "Failed to fetch bin"}
             /\ message'.text.err = ErrorOf(tasks[t])]_vars

C5_FailedFetchShown ==
    /\ message.show
    /\ message.text.tag = "Failed to fetch files"
    /\ files # <<>>
    /\ ~loading

(* C6: the step that ends moveToBin starts one fetchFiles and one          *)
(* fetchBinFiles when the call succeeded; when it failed it starts neither *)
(* and shows 'Move failed' with the error.                                 *)
C6_MoveRefreshesBothOrNeither ==
    [][\A t \in Tasks :
          moveToBinDone(t)
          => IF tasks[t].call.phase = "ok"
             THEN /\ Cardinality(StartedFor("fetchFiles", "move")) = 1
                  /\ Cardinality(StartedFor("fetchBin", "move")) = 1
             ELSE /\ Started("fetchFiles") = {}
                  /\ Started("fetchBin") = {}
                  /\ message' = handleMessage(
                         Text("Move failed", <<>>, tasks[t].call.err, 0))]_vars

C6_MoveRefreshing ==
    /\ \E t \in Tasks : tasks[t].op = "fetchFiles" /\ tasks[t].cause = "move"
    /\ \E t \in Tasks : tasks[t].op = "fetchBin" /\ tasks[t].cause = "move"

(* C7: a restore is asked for an entry of the bin listing and its call     *)
(* carries bin/ followed by that entry; the step that ends restoreFromBin  *)
(* starts both refreshes on success, and on failure starts none and shows  *)
(* 'Restore failed' with the error.                                        *)
C7_RestoreKeyAndRefreshes ==
    [][/\ \A f \in FileNames :
            restoreFromBinStart(f)
            => /\ Contains(binFiles, f)
               /\ \E t \in Tasks :
                     /\ tasks'[t].op = "restore" /\ tasks[t].op # "restore"
                     /\ tasks'[t].call.action = "restore_from_bin"
                     /\ tasks'[t].call.key = <<BinSeg, Slash>> \o f
       /\ \A t \in Tasks :
            restoreFromBinDone(t)
            => IF tasks[t].call.phase = "ok"
               THEN /\ Cardinality(StartedFor("fetchFiles", "restore")) = 1
                    /\ Cardinality(StartedFor("fetchBin", "restore")) = 1
               ELSE /\ Started("fetchFiles") = {}
                    /\ Started("fetchBin") = {}
                    /\ message' = handleMessage(
                           Text("Restore failed", <<>>, tasks[t].call.err, 0))]_vars

C7_RestoreRefreshing ==
    /\ \E t \in Tasks : tasks[t].op = "fetchFiles" /\ tasks[t].cause = "restore"
    /\ \E t \in Tasks : tasks[t].op = "fetchBin" /\ tasks[t].cause = "restore"

(* The bin listing as fetchBinFiles would display it, were the store st *)
BinShown(st) == CleanBinFiles(ServerData("list", <<BinSeg, Slash>>, st).files)

(* The listing of path as fetchFiles would display it, were the store st *)
FilesShown(st, path) == CleanFiles(ServerData("list", path, st).files)

(* C8: for a displayed file f that the store holds: after moveToBin(f) the *)
(* bin listing shows f; restoring that entry puts the file back under its  *)
(* original relative path, and the refreshed listings show it among the    *)
(* files and no longer in the bin.  And a restore the control plane has    *)
(* carried out has put its entry back under the name displayed.            *)
C8_MoveRestoreInverse ==
    /\ \A f \in FileNames :
          (Contains(files, f) /\ WithPath(currentPath, f) \in store)
          => LET moveKey == WithPath(currentPath, f)
                 st1 == ServerStore("move_to_bin", moveKey, store)
                 st2 == ServerStore("restore_from_bin", BinKey(f), st1)
             IN /\ ServerAccepts("move_to_bin", moveKey, store)
                /\ Contains(BinShown(st1), f)
                /\ ServerAccepts("restore_from_bin", BinKey(f), st1)
                /\ moveKey \in st2
                /\ Contains(FilesShown(st2, currentPath), f)
                /\ ~Contains(BinShown(st2), f)
    /\ \A t \in Tasks :
          (tasks[t].op = "restore" /\ tasks[t].call.phase = "ok")
          => /\ tasks[t].arg \in store
             /\ ~Contains(BinShown(store), tasks[t].arg)

(* a.txt was moved to the bin and restored, and both refreshes are done *)
C8_MovedAndRestored ==
    /\ nOps = 2
    /\ store = {<<"a.txt">>}
    /\ message.text.tag = "Restored from bin"
    /\ message.text.name = <<"a.txt">>
    /\ files = << <<"a.txt">> >>
    /\ binFiles = <<>>
    /\ \A t \in Tasks : tasks[t].op \in {"idle", "reserved"}

(* C9: an archive is saved only if every selected file was fetched.        *)
C9_NoArchiveUnlessAllFetched ==
    \A i \in 1..Len(saved) :
        saved[i].name = ZipName
        => \A j \in 1..Len(saved[i].content) : saved[i].content[j][2] = "ok"

(* C10: the step that ends handleMultipleDownload empties the selection if *)
(* every selected file was downloaded, and otherwise leaves it as it was   *)
(* when the download started.                                              *)
C10_SelectionClearedOnlyOnSuccess ==
    [][\A t \in Tasks :
          handleMultipleDownloadDone(t)
          => selectedFiles' = IF AllTransferred(tasks[t]) THEN <<>>
                              ELSE tasks[t].sel]_vars

(* C11: the step that ends a batch download whose Promise.all fulfilled    *)
(* makes exactly one save, when every member has settled: download.zip,    *)
(* with one entry per selected file, in order, each under the file's       *)
(* displayed relative path.                                                *)
C11_OneArchiveOfTheSelection ==
    [][\A t \in Tasks :
          (handleMultipleDownloadDone(t) /\ DownloadSucceeded(tasks[t]))
          => /\ AllSettled(tasks[t])
             /\ Len(saved') = Len(saved) + 1
             /\ SubSeq(saved', 1, Len(saved)) = saved
             /\ saved'[Len(saved')].name = ZipName
             /\ Len(saved'[Len(saved')].content) = Len(tasks[t].sel)
             /\ \A i \in 1..Len(tasks[t].sel) :
                   saved'[Len(saved')].content[i][1] = tasks[t].sel[i]]_vars

(* An archive of two files has been saved *)
C11_ArchiveOfTwo ==
    \E i \in 1..Len(saved) :
        /\ saved[i].name = ZipName
        /\ Len(saved[i].content) = 2
        /\ saved[i].content[1][1] # saved[i].content[2][1]

(* C12: a batch download asks only for files of the listing it is started *)
(* from: a file selected under another path is not among them.             *)
C12_DownloadOnlyWhatIsListed ==
    [][handleMultipleDownloadStart
       => \A i \in 1..Len(selectedFiles) : Contains(files, selectedFiles[i])]_vars

(* The part of key k beyond the scope *)
Beyond(k, scope) == Slice(k, Len(scope))

(* The elements of a sequence *)
Range(seq) == {seq[i] : i \in 1..Len(seq)}

C13_CodecRoundTrip ==
    (output.kind = "back" /\ ~Contains(input.path, BinSeg))
    => output.path = input.path

(* A path of two segments has gone through the codec and back *)
C13_WentRoundTrip ==
    /\ output.kind = "back"
    /\ input.path = <<"docs", Slash>>
    /\ input.userId = "u2"

(* C14: a key that does not start with the user's prefix comes out of      *)
(* cleanFileKey as it went in, and one that does not start with the user's *)
(* bin prefix comes out of cleanBinFileKey as it went in.                  *)
C14_CodecFallback ==
    output.kind = "cleaned"
    => /\ ~StartsWith(input.key, UserPrefix(input.userId))
          => output.file = input.key
       /\ ~StartsWith(input.key, BinPrefix(input.userId))
          => output.bin = input.key

(* A key of the user outside the bin has been through both cleaners *)
C14_FellBack ==
    /\ output.kind = "cleaned"
    /\ input.key = UserPrefix(input.userId) \o <<"a.txt">>
    /\ output.bin = input.key
    /\ output.file = <<"a.txt">>

WhitespaceOnly(name) == \A i \in 1..Len(name) : name[i] = Space

(* C16: createFolder with an empty or whitespace-only name raises the      *)
(* validation message, starts no call, and leaves files, folders, the      *)
(* current path and the folder-name input as they were.                    *)
C16_BlankNameRejected ==
    [][(createFolderStart /\ WhitespaceOnly(folderName))
       => /\ message' = handleMessage(
                 Text("Folder name cannot be empty", <<>>, "none", 0))
          /\ Calls' = Calls
          /\ UNCHANGED <<tasks, timers, store>>
          /\ UNCHANGED <<files, folders, currentPath, folderName>>]_vars

(* A whitespace-only name has been turned down *)
C16_BlankTurnedDown ==
    /\ folderName = <<Space>>
    /\ message.show
    /\ message.text.tag = "Folder name cannot be empty"

(* C17: when the create_folder call of createFolder succeeds, a refresh of *)
(* the current listing is started; when it fails, the error is shown, no   *)
(* refresh is started, and the lists, the current path and the selection   *)
(* stay as they were (with the file manager on the screen).                *)
C17_CreateFolderRefreshesCurrent ==
    [][\A t \in Tasks :
         (createFolderDone(t) /\ Mounted)
         => IF tasks[t].call.phase = "ok"
            THEN /\ tasks'[t].op = "fetchFiles"
                 /\ tasks'[t].cause = "createFolder"
                 /\ tasks'[t].path = currentPath
            ELSE /\ Started("fetchFiles") = {}
                 /\ Started("fetchBin") = {}
                 /\ message'.show
                 /\ message'.text.tag = "Folder creation failed"
                 /\ UNCHANGED <<files, folders, binFiles, currentPath,
                                selectedFiles>>]_vars

(* A step of the gateway in any revision *)
GatewayStep ==
    \/ apiCallRetry
    \/ \E t \in Tasks : apiCallResponse(t)
    \/ \E t \in Tasks, i \in 1..MaxBatch :
          i <= Len(tasks[t].members) /\ memberResponse(t, i)
    \/ \E t \in Tasks : apiCallV1(t)

(* C18: no step of apiCall, whether it succeeds, retries or fails, changes *)
(* the files, the folders, the bin list, the selection, the current path   *)
(* or the notification message.                                            *)
C18_GatewayChangesNothing ==
    [][GatewayStep => UNCHANGED <<files, folders, binFiles, selectedFiles,
                                  currentPath, message>>]_vars

(* The message the server put into its answer *)
ServerSupplied(in) == IF in.kind = "resolved" THEN in.body.message ELSE in.message

(* C19: for a response with a status of 400 or more, apiCall throws an     *)
(* error that carries the message the server supplied and that is neither  *)
(* the error of a missing token nor that of a transport failure; it never  *)
(* returns the body of such a response.                                    *)
C19_RejectedCarriesServerMessage ==
    (output.kind \in {"latest", "earlier"}
     /\ input.kind \in {"resolved", "refused"}
     /\ input.status >= 400)
    => /\ output.end.kind = "thrown"
       /\ output.kind = "latest"
          => /\ output.end.message = ServerSupplied(input)
             /\ output.end.message \notin {TokenMissing, Guidance}

(* C20: for every transport failure, whatever the message of the           *)
(* underlying error, apiCall throws an error whose message is the guidance *)
(* about the network or the API configuration.                             *)
C20_TransportFailureCarriesGuidance ==
    (output.kind = "latest" /\ input.kind = "transport")
    => /\ output.end.kind = "thrown"
       /\ output.end.message = Guidance

(* The object the control plane takes a key it is sent to name *)
Denotes(key) == UserPrefix(UserId) \o key

(* The absolute keys of the stored objects that are displayed as entry *)
ReturnedFor(entry) ==
    {k \in {UserPrefix(UserId) \o r : r \in store} : cleanFileKey(k, UserId) = entry}

(* The keys of the calls that this step starts *)
KeysSent == {c.key : c \in Calls' \ Calls}

(* C30: inside a folder, the key that single download, batch download and  *)
(* move-to-bin send for an entry of that folder's listing names the object *)
(* whose absolute key the control plane returned for that entry.           *)
C30_NestedKeyIdentity ==
    [][\A f \in NestedNames :
         (/\ currentPath # <<>>
          /\ Contains(CleanFiles(ListFiles(store, currentPath)), f)
          /\ \/ handleDownloadStart(f)
             \/ moveToBinStart(f)
             \/ handleMultipleDownloadStart /\ selectedFiles = <<f>>)
         => \A key \in KeysSent : Denotes(key) \in ReturnedFor(f)]_vars

(* C21: a single download of a listed entry asks for a link to that        *)
(* entry's object; when the link arrives it saves once, under the entry's  *)
(* relative path; when the call fails it shows a message; either way it    *)
(* starts no listing refresh and leaves the files, the folders, the bin    *)
(* list, the selection and the current path as they were.                  *)
C21_SingleDownload ==
    [][/\ \A f \in NestedNames :
            (/\ handleDownloadStart(f)
             /\ Contains(CleanFiles(ListFiles(store, currentPath)), f))
            => /\ \A key \in KeysSent : Denotes(key) \in ReturnedFor(f)
               /\ Started("fetchFiles") \cup Started("fetchBin") = {}
               /\ UNCHANGED <<files, folders, binFiles, selectedFiles, currentPath>>
       /\ \A t \in Tasks :
            handleDownloadDone(t)
            => /\ Started("fetchFiles") \cup Started("fetchBin") = {}
               /\ UNCHANGED <<files, folders, binFiles, selectedFiles, currentPath>>
               /\ IF tasks[t].call.phase = "ok"
                  THEN /\ Len(saved') = Len(saved) + 1
                       /\ saved'[Len(saved')].name = tasks[t].arg
                       /\ SubSeq(saved', 1, Len(saved)) = saved
                  ELSE /\ saved' = saved
                       /\ message'.show
                       /\ message'.text.tag = "Download failed"]_vars

(* The paths navigation can reach from the root of the store *)
NavPaths ==
    {<<>>, <<"docs", Slash>>, <<"docs", Slash, "docs", Slash, "sub", Slash>>}

(* The effect of a path change (or of the mount) is waiting to run *)
EffectQueued == \E t \in Tasks : tasks[t] = InitTask

(* The gateway has been called for the listing of path and for the bin *)
Refetching(path) ==
    /\ \E t \in Tasks : /\ tasks[t].op = "fetchFiles"
                        /\ tasks[t].pc = "call"
                        /\ tasks[t].call.action = "list"
                        /\ tasks[t].call.key = path
    /\ \E t \in Tasks : /\ tasks[t].op = "fetchBin"
                        /\ tasks[t].pc = "call"
                        /\ tasks[t].call.action = "list"
                        /\ tasks[t].call.key = <<BinSeg, Slash>>

(* getCurrentUser rejected in initialize, fetchFiles or fetchBinFiles *)
LookupFailed ==
    \E t \in Tasks : \/ tasks[t].op = "signedOut"
                     \/ tasks[t].op \in {"fetchFiles", "fetchBin"}
                        /\ tasks[t].pc = "userErr"

C23_OutcomeAfterAllSettled ==
    [][\A t \in Tasks :
         (handleUploadDone(t) \/ handleMultipleDownloadDone(t))
         => AllSettled(tasks[t])]_vars

NoRepeats(seq) == \A i, j \in 1..Len(seq) : seq[i] = seq[j] => i = j

(* C24: the selection never holds a path twice; a toggle adds the path     *)
(* when it is absent and removes it when it is present, so that toggling   *)
(* the same file twice gives back the membership there was.                *)
C24_SelectionIsASet ==
    /\ NoRepeats(selectedFiles)
    /\ \A f \in FileNames :
         LET once == Toggled(selectedFiles, f)
             twice == Toggled(once, f)
         IN /\ Range(once) = IF f \in Range(selectedFiles)
                             THEN Range(selectedFiles) \ {f}
                             ELSE Range(selectedFiles) \cup {f}
            /\ NoRepeats(once)
            /\ Range(twice) = Range(selectedFiles)

(* Two files are selected *)
C24_TwoSelected == Len(selectedFiles) = 2

(* C25: every selected path is in the displayed file list. *)
C25_SelectionWithinListing ==
    \A i \in 1..Len(selectedFiles) : Contains(files, selectedFiles[i])


C27_LatestMessageShown ==
    [][/\ \A t \in Tasks :
            (fetchFiles(t) /\ Failed(tasks[t])) =>
                message' = [show |-> TRUE,
                            text |-> Text("Failed to fetch files", <<>>,
                                          ErrorOf(tasks[t]), 0)]
       /\ \A t \in Tasks :
            (fetchBinFiles(t) /\ Failed(tasks[t])) =>
                message' = [show |-> TRUE,
                            text |-> Text("Failed to fetch bin", <<>>,
                                          ErrorOf(tasks[t]), 0)]
       /\ closeMessage => (~message'.show /\ message'.text = NoText)
       /\ (~message'.show /\ message.show) => closeMessage]_vars

(* Both listings of the mount effect failed at getCurrentUser, one after   *)
(* the other with no step between: the bin's message replaced the file     *)
(* list's.                                                                 *)
C27_SecondMessageShown ==
    /\ message = [show |-> TRUE,
                  text |-> Text("Failed to fetch bin", <<>>, "NotSignedIn", 0)]
    /\ files = <<>>
    /\ nOps = 0
    /\ \A t \in Tasks : tasks[t].op = "idle"

(* The File objects of a drop: name is the leaf name; webkitRelativePath   *)
(* is the path inside a dropped directory and empty for a picked file.     *)
DroppedFiles ==
    [name : FileNames,
     webkitRelativePath : {<<>>} \cup
         {<<d, Slash>> \o n : d \in {"docs", "new"}, n \in FileNames}]

WellFormedFile(file) ==
    file.webkitRelativePath = <<>>
    \/ file.webkitRelativePath[Len(file.webkitRelativePath)] = file.name[1]

Drops ==
    UNION {{d \in [1..n -> DroppedFiles] : \A i \in 1..n : WellFormedFile(d[i])} :
              n \in 1..MaxBatch}

(* file.webkitRelativePath || file.name *)
RelativeName(file) ==
    IF file.webkitRelativePath # <<>> THEN file.webkitRelativePath ELSE file.name

NamesOf(drop) == [i \in 1..Len(drop) |-> drop[i].name]

(* The keys the upload just started asks upload links for *)
UploadKeysOf(ts) ==
    LET tk == ts[FirstFree(tasks)]
    IN [i \in 1..Len(tk.members) |-> tk.members[i].call.key]

(* C28: an upload's destination key is the current path followed by the   *)
(* file's name, the relative name inside a dropped directory included, so  *)
(* that files with the same leaf name from different sub-folders get       *)
(* different keys.                                                         *)
C28_UploadKeyKeepsHierarchy ==
    [][\A drop \in Drops :
          (handleUploadStart(NamesOf(drop))
             /\ tasks'[FirstFree(tasks)].pc = "all") =>
             LET keys == UploadKeysOf(tasks')
             IN /\ \A i \in 1..Len(drop) :
                     keys[i] = currentPath \o RelativeName(drop[i])
                /\ \A i, j \in 1..Len(drop) :
                     RelativeName(drop[i]) # RelativeName(drop[j])
                        => keys[i] # keys[j]]_vars

(* A fetchFiles on its way, or the effect that will start one *)
ListingInFlight == \E t \in Tasks : tasks[t].op \in {"init", "fetchFiles"}

(* What fetchFiles shows for the answer to a list request of the scope,    *)
(* whatever the store held when it was answered.                           *)
ListingsOf(scope) ==
    {<<CleanFiles(ListFiles(st, scope)), CleanFiles(ListFolders(st, scope))>> :
        st \in SUBSET {AllKeys[i] : i \in 1..Len(AllKeys)}}

(* C29: whenever no listing fetch is in flight, the displayed files and    *)
(* folders are the result of a list request whose scope is the current     *)
(* path.                                                                   *)
C29_QuiescentListing ==
    (Mounted /\ ~ListingInFlight) => <<files, folders>> \in ListingsOf(currentPath)

(* A path is the root, or names each followed by a separator *)
WellFormedPath(path) ==
    \/ path = <<>>
    \/ /\ path[1] # Slash
       /\ path[Len(path)] = Slash
       /\ \A i \in 1..(Len(path) - 1) : ~(path[i] = Slash /\ path[i + 1] = Slash)

C32_UpUndoesDown ==
    [][walkUp =>
          /\ currentPath = <<>> => currentPath' = <<>>
          /\ Len(Segments(currentPath)) = 1 => currentPath' = <<>>
          /\ output.kind = "down" => currentPath' = output.prev]_vars

(* The call has issued its request to the control plane *)
Requested(c) ==
    c.phase \in {"inflight", "ok"}
    \/ (c.phase = "failed" /\ c.err # "AuthNotReady")

(* C33: a gateway call that obtains a token on its k-th acquisition       *)
(* (k <= retries + 1) has issued one request, on that acquisition and      *)
(* with the token, every earlier acquisition having ended in a wait; a     *)
(* call that found no token has issued none; each call counts its own      *)
(* retries.                                                                *)
C33_OneRequestPerCall ==
    \A c \in Calls :
        /\ Requested(c) =>
              (c.bearer /\ c.acq = c.waits + 1 /\ c.acq <= Retries + 1)
        /\ (c.phase \in {"backoff", "acquire"}
              \/ (c.phase = "failed" /\ c.err = "AuthNotReady")) => ~c.bearer
        /\ c.phase # "none" => c.retries = Retries - c.waits

(* Two requests on their way, one sent on a second acquisition and one on  *)
(* a first.                                                                *)
C33_SecondAndFirstAttempt ==
    \E c, d \in Calls :
        /\ c.phase = "inflight" /\ c.acq = 2
        /\ d.phase = "inflight" /\ d.acq = 1

(* A listing fetch, a create-folder, an upload batch or a batch download   *)
(* that has not run to its end                                             *)
WorkInFlight ==
    \E t \in Tasks :
        tasks[t].op \in {"fetchFiles", "fetchBin", "createFolder", "upload", "multi"}

(* C34: whenever a listing fetch, a create-folder, an upload batch or a   *)
(* batch download is in flight the loading flag is true.                   *)
C34_LoadingCoversWork == WorkInFlight => loading

(* No handler is running: every slot is free or kept for a refresh *)
Quiet == \A t \in Tasks : tasks[t].op \in {"idle", "reserved"}

(* C35: the loading flag is always released: once set it becomes false    *)
(* again, and it is false whenever no operation is in flight, after        *)
(* successes and failures alike.                                           *)
C35_LoadingReleased ==
    /\ [](Quiet => ~loading)
    /\ (loading ~> ~loading)

(* An upload has failed and the flag is down again *)
C35_ReleasedAfterFailure ==
    /\ Quiet
    /\ ~loading
    /\ message.show
    /\ message.text.tag = "Upload failed"

(* What fetchFiles shows for the answer to a list request of the scope *)
ShownFor(st, scope) ==
    <<CleanFiles(ListFiles(st, scope)), CleanFiles(ListFolders(st, scope))>>

RECURSIVE Walks(_)
(* The paths n navigations can lead to: each step enters a folder entry or *)
(* goes up one level.                                                      *)
Walks(n) ==
    IF n = 0 THEN {<<>>}
    ELSE LET before == Walks(n - 1)
         IN before \cup {ChildOf(p, f) : p \in before, f \in FolderNames}
                   \cup {ParentOf(p) : p \in before}

(* C36: the displayed files and folders come from one list response, under *)
(* any interleaving of refreshes: they change only together, in the step   *)
(* that applies a response; a refresh of the listing never changes the bin *)
(* list and a refresh of the bin never changes files or folders.           *)
C36_OneResponseShown ==
    /\ [](\/ <<files, folders>> = << <<>>, <<>> >>
          \/ \E scope \in Walks(MaxOps) :
                <<files, folders>> = ShownFor(store, scope))
    /\ [][/\ (files' # files \/ folders' # folders) =>
               \E t \in Tasks :
                  /\ fetchFiles(t)
                  /\ ~Failed(tasks[t])
                  /\ files' = CleanFiles(tasks[t].call.data.files)
                  /\ folders' = CleanFiles(tasks[t].call.data.folders)
          /\ \A t \in Tasks : fetchFiles(t) => binFiles' = binFiles
          /\ \A t \in Tasks :
               fetchBinFiles(t) => (files' = files /\ folders' = folders)]_vars

(* Two refreshes of the listing on their way at once, for different paths, *)
(* while a listing is shown.                                               *)
C36_TwoRefreshes ==
    /\ files # <<>>
    /\ \E t, u \in Tasks :
          /\ tasks[t].op = "fetchFiles"
          /\ tasks[u].op = "fetchFiles"
          /\ tasks[t].path # tasks[u].path

RECURSIVE Minus(_, _)
(* The sequence without the elements of gone *)
Minus(seq, gone) ==
    IF seq = <<>> THEN <<>>
    ELSE (IF Contains(gone, Head(seq)) THEN <<>> ELSE <<Head(seq)>>)
         \o Minus(Tail(seq), gone)

(* C37: a successful batch download removes from the selection exactly    *)
(* the paths that went into the archive; a file selected while the batch   *)
(* was in flight stays selected.                                           *)
C37_OnlyArchivedDeselected ==
    [][\A t \in Tasks :
          (handleMultipleDownloadDone(t) /\ DownloadSucceeded(tasks[t]))
          => selectedFiles' = Minus(selectedFiles, tasks[t].sel)]_vars

(* C38: the two refreshes after a successful move-to-bin or restore are   *)
(* independent: both are started whether or not the other fails at once,   *)
(* the end of one, failed or not, leaves the other as it is, each applies  *)
(* its own answer, and no failure of a refresh turns the reported success  *)
(* into 'Move failed' or 'Restore failed' or touches the store.            *)
C38_RefreshesIndependent ==
    [][/\ \A t \in Tasks :
            ((moveToBinDone(t) \/ restoreFromBinDone(t)) /\ ~Failed(tasks[t]))
            => /\ Cardinality(StartedFor("fetchFiles", tasks[t].op)) = 1
               /\ Cardinality(StartedFor("fetchBin", tasks[t].op)) = 1
       /\ \A t \in Tasks :
            ((fetchFiles(t) \/ fetchBinFiles(t))
               /\ tasks[t].cause \in {"move", "restore"})
            => /\ \A u \in Tasks \ {t} : tasks'[u] = tasks[u]
               /\ store' = store
               /\ \/ message' = message
                  \/ message'.text.tag \notin {"Move failed", "Restore failed"}
               /\ (fetchFiles(t) /\ ~Failed(tasks[t]))
                     => files' = CleanFiles(tasks[t].call.data.files)
               /\ (fetchBinFiles(t) /\ ~Failed(tasks[t]))
                     => binFiles' = CleanBinFiles(tasks[t].call.data.files)]_vars

(* After a move the refresh of the listing failed and the refresh of the   *)
(* bin was applied: the file is shown in both lists.                       *)
C38_BinRefreshedListingNot ==
    /\ Quiet
    /\ <<BinSeg, Slash, "a.txt">> \in store
    /\ <<"a.txt">> \notin store
    /\ Contains(files, <<"a.txt">>)
    /\ Contains(binFiles, <<"a.txt">>)
----------------------------------------------------------------------------
(* C39: the sign-in pages.  While authFlow is 'login' the pending email is *)
(* empty; while it is 'verify-signup' or 'verify-reset' the pending email  *)
(* is not empty, and every step that starts such a flow or changes its     *)
(* address sets it to the address the form submitted when its call to the  *)
(* identity provider began; 'new-password' is entered only from            *)
(* 'verify-reset', by the step of handleVerify that stored a six-digit     *)
(* code.                                                                   *)
Verifying(flow) == flow \in {"verify-signup", "verify-reset"}

StartedBy(flow) == IF flow = "verify-signup" THEN "signed up" ELSE "reset code sent"

C39_AuthFlowMachine ==
    /\ [](authFlow = "login" => pendingEmail = <<>>)
    /\ [](Verifying(authFlow) => pendingEmail # <<>>)
    /\ [][Verifying(authFlow') /\ (authFlow' # authFlow \/ pendingEmail' # pendingEmail)
            => /\ input'.kind = StartedBy(authFlow')
               /\ pendingEmail' = input'.email]_vars
    /\ [][authFlow' = "new-password" /\ authFlow # "new-password"
            => /\ authFlow = "verify-reset"
               /\ input'.kind = "reset code stored"
               /\ Len(sessionStorage'["resetCode"]) = CodeLength]_vars

(* A reset that reached the new-password form while the sign-up of another *)
(* address was still waiting for its verification.                         *)
C39_ResetOvertookSignup ==
    /\ authFlow = "new-password"
    /\ pendingEmail = <<"b@x">>
    /\ \E t \in Tasks : tasks[t].op = "confirmSignUp" /\ tasks[t].arg = <<"a@x">>

(* C40: the reset code and email are in session storage only while a reset *)
(* is in progress: never while authFlow is 'login' or 'verify-signup'.     *)
C40_ResetStoredOnlyDuringReset ==
    DOMAIN sessionStorage # {} => authFlow \in {"verify-reset", "new-password"}

====
